---- MODULE Spec2Model ----
(***************************************************************************)
(* A model of exers: compiled artifacts and their scratch directory        *)
(* (compilers/mod.rs), the preprocessor bundle (common/preprocessor.rs)    *)
(* and the runtime builder with its fused executor (common/builder.rs).    *)
(*                                                                         *)
(* The specifications share the module's variables; each one moves the     *)
(* variables of one component and leaves the others at their initial       *)
(* values:                                                                 *)
(*   SpecArtifact  clones, drops and clean_up calls on one artifact        *)
(*   SpecBundle    building and applying a PreprocessorBundle              *)
(*   SpecBuilder   RuntimeBuilder calls, build, executor invocations       *)
(***************************************************************************)
EXTENDS Naturals, Sequences, FiniteSets

VARIABLES
    \* ---- one compiled artifact and its clones (compilers/mod.rs)
    cpc,          \* per clone: where the clone is in its life / in clean_up
    cmode,        \* per clone: the call in progress, "drop" or "explicit"
    ctook,        \* per clone: whether the call in progress took Some(temp_dir)
    cret,         \* per clone: what the last finished clean_up returned
    handle,       \* the shared Option<TempDir>: "Some" or "None"
    lockOwner,    \* the clone holding the Mutex, 0 when it is free
    fs,           \* the paths of the artifact that exist on disk
    closeCalls,   \* how many times TempDir::close has run
    explicitCalls,\* how many explicit clean_up calls were issued
    fsAtTake,     \* per clone: fs when the call in progress took the lock
    \* ---- a preprocessor bundle (common/preprocessor.rs)
    bn_stages,    \* PreprocessorBundle.preprocessors
    bn_added,     \* the arguments of the add_preprocessor calls, in call order
    bn_pc,        \* "building", "drain", "loop", "done", "panicked"
    bn_src,       \* the bytes of the reader given to preprocess
    bn_code,      \* the local `code`
    bn_i,         \* the index of the next stage of the for loop
    bn_ran,       \* the stages called so far, in call order
    bn_failed,    \* the error of the stage that failed, NoError if none did
    bn_out,       \* what preprocess gave its caller
    \* ---- the runtime builder and the fused executor (common/builder.rs)
    rb,           \* the RuntimeBuilder's fields
    rb_hist,      \* which setters were ever called on the builder
    built,        \* what build() returned
    exec,         \* the state captured by the closures cf and rf
    exec0,        \* the captured state as it was when build() returned
    inv,          \* the invocation in progress
    memo,         \* one earlier finished invocation: its source and result
    rb_left,      \* whether a finished invocation left its scratch directory on disk
    \* ---- one compile call on a compiler adapter (compilers/*_compiler.rs)
    cp_pc,        \* the statement the call is at
    cp_call,      \* the adapter called: language, runtime, use_cython
    cp_path,      \* the programs which::which finds on PATH
    cp_env,       \* the environment variables that are set
    cp_depth,     \* the running frame: 1 the adapter, 2 the delegated CppCompiler
    cp_disk,      \* per frame: its temporary directory on disk and the files in it
    cp_owner,     \* per frame: who holds its TempDir: "frame", "artifact", "none"
    cp_pending,   \* the error or panic on its way out
    cp_log,       \* the PATH checks made and the processes run, in order
    cp_ret,       \* what compile gave its caller
    \* ---- the memory tunables of a WASI engine (common/runtime.rs)
    tn_pc,        \* "engine", "ready", "adjust", "validate", "base", "done"
    tn_memory_limit, \* WasmConfig.memory_limit
    tn_tunables,  \* whether LimitingTunables is installed, and its limit
    tn_entry,     \* the Tunables method the VM called
    tn_ty,        \* the MemoryType the VM asked for
    tn_adjusted,  \* the local `adjusted`
    tn_ret,       \* what the method returned, and the type handed to the base
    \* ---- the runtimes (runtimes/native_runtime.rs, jailed_runtime.rs,
    \* ---- wasm_runtime.rs)
    nj_in,        \* side-data, stdin descriptor and host file of the native and jailed runs
    nj_child,     \* the behaviour of the spawned child, once there is one
    nj_host,      \* the host as check_root saw it
    nj_scratch,   \* the files in the artifact's scratch directory
    nat,          \* the native run: position, command, pipes, timer, result
    jl,           \* the jailed run, likewise
    wz_in,        \* WasmConfig and WasmAdditionalData of the WASI run
    wz,           \* the WASI run: position, engine, pipes, mounts, gas, result
    wz_host,      \* the host files the guest created
    \* ---- the arguments built from a compiler config (common/compiler.rs)
    oa,           \* the config built and the arguments into_args gave
    \* ---- compiling for the jailed runtime (runtimes/jailed_runtime.rs)
    jc,           \* the call's position, both artifacts, the directory on disk
    \* ---- the pipes of a native or jailed run (runtimes/native_runtime.rs)
    pp            \* the parent's position, the child's, the bytes in each pipe

artVars == <<cpc, cmode, ctook, cret, handle, lockOwner, fs, closeCalls,
             explicitCalls, fsAtTake>>
bnVars == <<bn_stages, bn_added, bn_pc, bn_src, bn_code, bn_i, bn_ran, bn_failed, bn_out>>
rbVars == <<rb, rb_hist, built, exec, exec0, inv, memo, rb_left>>
cpVars == <<cp_pc, cp_call, cp_path, cp_env, cp_depth, cp_disk, cp_owner,
            cp_pending, cp_log, cp_ret>>
tnVars == <<tn_pc, tn_memory_limit, tn_tunables, tn_entry, tn_ty, tn_adjusted, tn_ret>>
njVars == <<nj_in, nj_child, nj_host, nj_scratch, nat, jl>>
wzVars == <<wz_in, wz, wz_host>>
runVars == <<njVars, wzVars>>
oaVars == <<oa>>
jcVars == <<jc>>
ppVars == <<pp>>
vars == <<artVars, bnVars, rbVars, cpVars, tnVars, runVars, oaVars, jcVars, ppVars>>

(***************************************************************************)
(* Bounds of the model.                                                    *)
(***************************************************************************)
MaxClones == 3
MaxCleanUps == 2
MaxCodeLen == 2
MaxStages == 2
MaxSrcLen == 1
MaxErrLen == 1
MaxPages == 2
MaxInLen == 1
MaxOutLen == 1
MaxOps == 2
MaxGas == 2
MaxCustomLen == 2
MaxFlags == 2
PipeCap == 1
MaxIn == 3
MaxProg == 3


(***************************************************************************)
(* CompiledCode: compilers/mod.rs.                                         *)
(* One artifact as a compiler returned it, and the values cloned from it.  *)
(* Every clone holds the same Arc<Mutex<Option<TempDir>>>.                 *)
(***************************************************************************)
Clones == 1..MaxClones

ScratchDir == "exers-tmp"
Executable == "exers-tmp/executable"

\* What a compiler leaves on disk when it returns Ok: the directory and,
\* inside it, the executable.
CompiledFiles == {ScratchDir, Executable}

\* Option::take on the shared handle: the handle is None afterwards.
KeepHandle(h) == h
TakeHandle(h) == "None"

\* TempDir::close: remove_dir_all on the directory.  When the host refuses,
\* the directory stays, with some of its files.
RemoveDirAll(files, ok) ==
    IF ok THEN {{}} ELSE {s \in SUBSET files : ScratchDir \in s}

ArtInit ==
    /\ cpc = [c \in Clones |-> IF c = 1 THEN "live" ELSE "absent"]
    /\ cmode = [c \in Clones |-> "none"]
    /\ ctook = [c \in Clones |-> FALSE]
    /\ cret = [c \in Clones |-> "none"]
    /\ handle = "Some"
    /\ lockOwner = 0
    /\ fs = CompiledFiles
    /\ closeCalls = 0
    /\ explicitCalls = 0
    /\ fsAtTake = [c \in Clones |-> {}]

\* #[derive(Clone)]: a new value sharing the Arc.
CloneArtifact(c, d) ==
    /\ cpc[c] = "live"
    /\ cpc[d] = "absent"
    /\ cpc' = [cpc EXCEPT ![d] = "live"]
    /\ UNCHANGED <<cmode, ctook, cret, handle, lockOwner, fs, closeCalls,
                   explicitCalls, fsAtTake>>
    /\ UNCHANGED <<bnVars, rbVars, cpVars, tnVars, runVars, oaVars, jcVars, ppVars>>

\* clean_up is entered, by the caller (explicit) or by Drop::drop.
CleanUpCall(c, m) ==
    /\ cpc[c] = "live"
    /\ m = "explicit" => explicitCalls < MaxCleanUps
    /\ cpc' = [cpc EXCEPT ![c] = "wait"]
    /\ cmode' = [cmode EXCEPT ![c] = m]
    /\ explicitCalls' = IF m = "explicit" THEN explicitCalls + 1 ELSE explicitCalls
    /\ UNCHANGED <<ctook, cret, handle, lockOwner, fs, closeCalls, fsAtTake>>
    /\ UNCHANGED <<bnVars, rbVars, cpVars, tnVars, runVars, oaVars, jcVars, ppVars>>

\* self.temp_dir_handle.lock().unwrap().take(): the guard lives to the end
\* of the if-let statement.
LockTake(c) ==
    /\ cpc[c] = "wait"
    /\ lockOwner = 0
    /\ lockOwner' = c
    /\ ctook' = [ctook EXCEPT ![c] = (handle = "Some")]
    /\ handle' = TakeHandle(handle)
    /\ fsAtTake' = [fsAtTake EXCEPT ![c] = fs]
    /\ cret' = [cret EXCEPT ![c] = "Ok"]
    /\ cpc' = [cpc EXCEPT ![c] = IF handle = "Some" THEN "close" ELSE "ret"]
    /\ UNCHANGED <<cmode, fs, closeCalls, explicitCalls>>
    /\ UNCHANGED <<bnVars, rbVars, cpVars, tnVars, runVars, oaVars, jcVars, ppVars>>

\* temp_dir.close()?
CloseTempDir(c) ==
    /\ cpc[c] = "close"
    /\ \E ok \in BOOLEAN :
         /\ fs' \in RemoveDirAll(fs, ok)
         /\ cret' = [cret EXCEPT ![c] = IF ok THEN "Ok" ELSE "Err"]
    /\ closeCalls' = closeCalls + 1
    /\ cpc' = [cpc EXCEPT ![c] = "ret"]
    /\ UNCHANGED <<cmode, ctook, handle, lockOwner, explicitCalls, fsAtTake>>
    /\ UNCHANGED <<bnVars, rbVars, cpVars, tnVars, runVars, oaVars, jcVars, ppVars>>

\* clean_up returns and the guard is released; in Drop::drop the result is
\* unwrapped and the value is gone.
CleanUpReturn(c) ==
    /\ cpc[c] = "ret"
    /\ lockOwner' = IF lockOwner = c THEN 0 ELSE lockOwner
    /\ cpc' = [cpc EXCEPT ![c] =
                 IF cmode[c] = "explicit" THEN "live"
                 ELSE IF cret[c] = "Ok" THEN "dropped" ELSE "panicked"]
    /\ cmode' = [cmode EXCEPT ![c] = "none"]
    /\ UNCHANGED <<ctook, cret, handle, fs, closeCalls, explicitCalls, fsAtTake>>
    /\ UNCHANGED <<bnVars, rbVars, cpVars, tnVars, runVars, oaVars, jcVars, ppVars>>

NextArtifact ==
    \/ \E c, d \in Clones : CloneArtifact(c, d)
    \/ \E c \in Clones : \E m \in {"drop", "explicit"} : CleanUpCall(c, m)
    \/ \E c \in Clones : LockTake(c)
    \/ \E c \in Clones : CloseTempDir(c)
    \/ \E c \in Clones : CleanUpReturn(c)


(***************************************************************************)
(* Source text and sample preprocessors: common/preprocessor.rs.           *)
(* Text is a sequence of characters.  A reader yields bytes; "xFF" is a    *)
(* byte that is not valid UTF-8.                                           *)
(***************************************************************************)
Chars == {"a", "b", "c"}
Bytes == {"a", "b", "xFF"}

SeqsUpTo(S, n) == UNION {[1..k -> S] : k \in 0..n}

\* The readers given to PreprocessorBundle::preprocess, and to the executor.
Sources == SeqsUpTo(Bytes, MaxCodeLen)
ExecSources == SeqsUpTo(Bytes, MaxSrcLen)

\* std::io::read_to_string / Read::read_to_string: Err on bytes that are
\* not UTF-8.
ReadToString(src) ==
    IF \A k \in 1..Len(src) : src[k] \in Chars
    THEN [ok |-> TRUE, val |-> src]
    ELSE [ok |-> FALSE, val |-> <<>>]

\* str::replace of one character by another.
Replace(code, x, y) == [k \in 1..Len(code) |-> IF code[k] = x THEN y ELSE code[k]]

Contains(code, x) == \E k \in 1..Len(code) : code[k] = x

NoError == [kind |-> "none", msg |-> ""]
ParserError(m) == [kind |-> "ParserError", msg |-> m]
Other(m) == [kind |-> "Other", msg |-> m]

POk(code) == [ok |-> TRUE, val |-> code, err |-> NoError]
PErr(e) == [ok |-> FALSE, val |-> <<>>, err |-> e]

\* Implementors of the Preprocessor trait: the two closures of
\* test_preprocessor_bundle, one that rejects text holding "b", and one
\* that rejects everything.
PreIds == {"a2b", "b2c", "lint", "deny"}

Preprocess(p, code) ==
    CASE p = "a2b" -> POk(Replace(code, "a", "b"))
      [] p = "b2c" -> POk(Replace(code, "b", "c"))
      [] p = "lint" -> IF Contains(code, "b")
                       THEN PErr(ParserError("unexpected b"))
                       ELSE POk(code)
      [] OTHER -> PErr(Other("denied"))

\* PreprocessorBundle values offered to add_preprocessor or to
\* RuntimeBuilder::preprocessor: the empty bundle, and the bundle of the
\* two closures of test_preprocessor_bundle.
BundleValues == {"bundle[]", "bundle[a2b,b2c]"}

\* The bound `impl Preprocessor + 'static`: the trait is implemented for
\* Fn(&str) -> PreprocessorResult<String> closures and by the types that
\* implement it by hand; PreprocessorBundle has no impl of it.
ImplementsPreprocessor(x) == x \in PreIds

(***************************************************************************)
(* PreprocessorBundle: common/preprocessor.rs.                             *)
(***************************************************************************)
NoOut == [kind |-> "none", val |-> <<>>, err |-> NoError]

BnInit ==
    /\ bn_stages = <<>>
    /\ bn_added = <<>>
    /\ bn_pc = "building"
    /\ bn_src = <<>>
    /\ bn_code = <<>>
    /\ bn_i = 1
    /\ bn_ran = <<>>
    /\ bn_failed = NoError
    /\ bn_out = NoOut

\* self.preprocessors.push(Arc::new(preprocessor))
PushStage(stages, p) == Append(stages, p)

\* for preprocessor in &self.preprocessors
BundleStageReversed(stages, k) == stages[Len(stages) + 1 - k]
BundleStageAt(stages, k) == stages[k]

\* Err(err) => panic!("Preprocessor error: {:?}", err)
BundleSkipErr(e) == [pc |-> "loop", out |-> NoOut]
BundleOnErr(e) == [pc |-> "panicked", out |-> [kind |-> "panic", val |-> <<>>, err |-> e]]

\* add_preprocessor(self, preprocessor: impl Preprocessor + 'static)
AddPreprocessor(x) ==
    /\ bn_pc = "building"
    /\ Len(bn_stages) < MaxStages
    /\ ImplementsPreprocessor(x)
    /\ bn_stages' = PushStage(bn_stages, x)
    /\ bn_added' = Append(bn_added, x)
    /\ UNCHANGED <<bn_pc, bn_src, bn_code, bn_i, bn_ran, bn_failed, bn_out>>
    /\ UNCHANGED <<artVars, rbVars, cpVars, tnVars, runVars, oaVars, jcVars, ppVars>>

\* preprocess(&self, code) is entered with a reader.
BundleCall(src) ==
    /\ bn_pc = "building"
    /\ bn_pc' = "drain"
    /\ bn_src' = src
    /\ UNCHANGED <<bn_stages, bn_added, bn_code, bn_i, bn_ran, bn_failed, bn_out>>
    /\ UNCHANGED <<artVars, rbVars, cpVars, tnVars, runVars, oaVars, jcVars, ppVars>>

\* let mut code = std::io::read_to_string(code).unwrap();
BundleDrain ==
    /\ bn_pc = "drain"
    /\ LET r == ReadToString(bn_src) IN
         IF r.ok
         THEN /\ bn_code' = r.val
              /\ bn_pc' = "loop"
              /\ bn_out' = bn_out
         ELSE /\ bn_code' = bn_code
              /\ bn_pc' = "panicked"
              /\ bn_out' = [kind |-> "panic", val |-> <<>>, err |-> NoError]
    /\ UNCHANGED <<bn_stages, bn_added, bn_src, bn_i, bn_ran, bn_failed>>
    /\ UNCHANGED <<artVars, rbVars, cpVars, tnVars, runVars, oaVars, jcVars, ppVars>>

\* One turn of the for loop: code = match preprocessor.preprocess(&code).
BundleStep ==
    /\ bn_pc = "loop"
    /\ bn_i <= Len(bn_stages)
    /\ LET p == BundleStageAt(bn_stages, bn_i)
           r == Preprocess(p, bn_code)
       IN /\ bn_ran' = Append(bn_ran, p)
          /\ bn_i' = bn_i + 1
          /\ IF r.ok
             THEN /\ bn_code' = r.val
                  /\ UNCHANGED <<bn_pc, bn_out, bn_failed>>
             ELSE /\ bn_failed' = r.err
                  /\ bn_pc' = BundleOnErr(r.err).pc
                  /\ bn_out' = BundleOnErr(r.err).out
                  /\ UNCHANGED bn_code
    /\ UNCHANGED <<bn_stages, bn_added, bn_src>>
    /\ UNCHANGED <<artVars, rbVars, cpVars, tnVars, runVars, oaVars, jcVars, ppVars>>

\* The loop is over: preprocess returns code.
BundleReturn ==
    /\ bn_pc = "loop"
    /\ bn_i > Len(bn_stages)
    /\ bn_pc' = "done"
    /\ bn_out' = [kind |-> "Ok", val |-> bn_code, err |-> NoError]
    /\ UNCHANGED <<bn_stages, bn_added, bn_src, bn_code, bn_i, bn_ran, bn_failed>>
    /\ UNCHANGED <<artVars, rbVars, cpVars, tnVars, runVars, oaVars, jcVars, ppVars>>

\* The caller goes on with the bundle: it may add stages or apply it again.
BundleAgain ==
    /\ bn_pc \in {"done", "panicked"}
    /\ bn_pc' = "building"
    /\ bn_src' = <<>>
    /\ bn_code' = <<>>
    /\ bn_i' = 1
    /\ bn_ran' = <<>>
    /\ bn_failed' = NoError
    /\ bn_out' = NoOut
    /\ UNCHANGED <<bn_stages, bn_added>>
    /\ UNCHANGED <<artVars, rbVars, cpVars, tnVars, runVars, oaVars, jcVars, ppVars>>

NextBundle ==
    \/ \E x \in PreIds \cup BundleValues : AddPreprocessor(x)
    \/ \E src \in Sources : BundleCall(src)
    \/ BundleDrain
    \/ BundleStep
    \/ BundleReturn
    \/ BundleAgain


(***************************************************************************)
(* The compiler and the runtime a builder is given: the Compiler and       *)
(* CodeRuntime traits.  Both are functions of their arguments: a program   *)
(* compiles unless it holds "a"; under the limiting runtime config every   *)
(* non-empty program fails at run time.                                    *)
(***************************************************************************)
CompilerConfigs == {"dflt", "opt"}
RuntimeConfigs == {"dflt", "lim"}
DefaultCompilerConfig == "dflt"
DefaultRuntimeConfig == "dflt"

NoCErr == [kind |-> "none", msg |-> "", pre |-> NoError]
NoArt == [code |-> <<>>, cfg |-> "none"]
NoVal == [stdout |-> <<>>, ccfg |-> "none", rcfg |-> "none"]
NoResult == [kind |-> "none", val |-> NoVal, err |-> NoCErr]

\* Compiler::compile(&self, code, config) -> CompilationResult<CompiledCode<R>>
Compile(code, cfg) ==
    IF Contains(code, "a")
    THEN [ok |-> FALSE, art |-> NoArt,
          err |-> [kind |-> "CompilationFailed", msg |-> "stderr", pre |-> NoError]]
    ELSE [ok |-> TRUE, art |-> [code |-> code, cfg |-> cfg], err |-> NoCErr]

\* CodeRuntime::run(&self, code, config) -> Result<ExecutionResult, Self::Error>
Run(art, rcfg) ==
    IF rcfg = "lim" /\ art.code # <<>>
    THEN [ok |-> FALSE, val |-> NoVal,
          err |-> [kind |-> "RuntimeFailed", msg |-> "limit", pre |-> NoError]]
    ELSE [ok |-> TRUE,
          val |-> [stdout |-> art.code, ccfg |-> art.cfg, rcfg |-> rcfg],
          err |-> NoCErr]

\* The conversion `?` applies to a PreprocessorError inside cf, whose error
\* type is CompilationError.
LiftPreprocessorError(e) == [kind |-> "Preprocessor", msg |-> e.msg, pre |-> e]

(***************************************************************************)
(* RuntimeBuilder and CustomRuntime: common/builder.rs.                    *)
(***************************************************************************)
NoExec == [preprocessors |-> <<>>, compiler_config |-> "none", runtime_config |-> "none"]

IdleInv ==
    [pc |-> "idle", src |-> <<>>, code |-> <<>>, i |-> 1, log |-> <<>>,
     art |-> NoArt, dir |-> "none", result |-> NoResult, failedAt |-> "none",
     preErr |-> NoError]

\* Scratch directories left on disk by invocations that returned and by
\* invocations that panicked.
NoLeft == [returned |-> FALSE, panicked |-> FALSE]

\* compiled_code goes out of scope at the end of the closure: Drop for
\* CompiledCode removes its scratch directory.
ForgetArtifact(dir) == dir
DropArtifact(dir) == IF dir = "exists" THEN "deleted" ELSE dir

NoMemo == [set |-> FALSE, src |-> <<>>, result |-> NoResult]

LogEntry(op, arg, code, acfg) == [op |-> op, arg |-> arg, code |-> code, acfg |-> acfg]

\* RuntimeBuilder::new()
NewBuilder ==
    [preprocessors |-> <<>>, compiler |-> "None", runtime |-> "None",
     compiler_config |-> "None", runtime_config |-> "None"]

RbInit ==
    /\ rb = NewBuilder
    /\ rb_hist = [compiler |-> FALSE, runtime |-> FALSE, added |-> <<>>]
    /\ built = "none"
    /\ exec = NoExec
    /\ exec0 = NoExec
    /\ inv = IdleInv
    /\ memo = NoMemo
    /\ rb_left = NoLeft

\* self.preprocessors.push(Box::new(preprocessor))
RbPush(stages, p) == Append(stages, p)

\* The two ok_or(..)? of build, the compiler first.
BuildCheckRuntimeFirst(b) ==
    IF b.runtime = "None" THEN "RuntimeNotSet"
    ELSE IF b.compiler = "None" THEN "CompilerNotSet"
    ELSE "Ok"
BuildCheck(b) ==
    IF b.compiler = "None" THEN "CompilerNotSet"
    ELSE IF b.runtime = "None" THEN "RuntimeNotSet"
    ELSE "Ok"

\* Option::unwrap_or_default
UnwrapOrDefault(o, d) == IF o = "None" THEN d ELSE o

\* What the closures capture by move.
Capture(b) ==
    [preprocessors |-> b.preprocessors,
     compiler_config |-> UnwrapOrDefault(b.compiler_config, DefaultCompilerConfig),
     runtime_config |-> UnwrapOrDefault(b.runtime_config, DefaultRuntimeConfig)]

\* config.clone(): the captured config after the call.
AfterMoveCompilerConfig(cfg) == DefaultCompilerConfig
AfterCloneCompilerConfig(cfg) == cfg
AfterCloneRuntimeConfig(cfg) == cfg

\* for preprocessor in self.preprocessors.iter()
ExecStageReversed(stages, k) == stages[Len(stages) + 1 - k]
ExecStageAt(stages, k) == stages[k]

\* The tags CustomRuntime::new puts on the errors of cf and of rf.
TagSwapped(e) == [kind |-> "RuntimeError", val |-> NoVal, err |-> e]
TagCompilation(e) == [kind |-> "CompilationError", val |-> NoVal, err |-> e]
TagRuntime(e) == [kind |-> "RuntimeError", val |-> NoVal, err |-> e]

\* code = preprocessor.preprocess(&code)?
ExIgnorePreErr(e) == [pc |-> "pre", result |-> NoResult]
ExOnPreErr(e) == [pc |-> "done", result |-> TagCompilation(LiftPreprocessorError(e))]

\* preprocessor(self, preprocessor: impl Preprocessor + 'static)
RbPreprocessor(x) ==
    /\ built = "none"
    /\ Len(rb.preprocessors) < MaxStages
    /\ ImplementsPreprocessor(x)
    /\ rb' = [rb EXCEPT !.preprocessors = RbPush(@, x)]
    /\ rb_hist' = [rb_hist EXCEPT !.added = Append(@, x)]
    /\ UNCHANGED <<built, exec, exec0, inv, memo, rb_left>>
    /\ UNCHANGED <<artVars, bnVars, cpVars, tnVars, runVars, oaVars, jcVars, ppVars>>

\* compiler(self, compiler, config: Option<C::Config>)
RbCompiler(cfg) ==
    /\ built = "none"
    /\ rb' = [rb EXCEPT !.compiler = "Some", !.compiler_config = cfg]
    /\ rb_hist' = [rb_hist EXCEPT !.compiler = TRUE]
    /\ UNCHANGED <<built, exec, exec0, inv, memo, rb_left>>
    /\ UNCHANGED <<artVars, bnVars, cpVars, tnVars, runVars, oaVars, jcVars, ppVars>>

\* runtime(self, runtime, config: Option<R::Config>)
RbRuntime(cfg) ==
    /\ built = "none"
    /\ rb' = [rb EXCEPT !.runtime = "Some", !.runtime_config = cfg]
    /\ rb_hist' = [rb_hist EXCEPT !.runtime = TRUE]
    /\ UNCHANGED <<built, exec, exec0, inv, memo, rb_left>>
    /\ UNCHANGED <<artVars, bnVars, cpVars, tnVars, runVars, oaVars, jcVars, ppVars>>

\* build(self): the builder is consumed; its fields are taken or moved
\* into the closures, or dropped with it on the error returns.
RbBuild ==
    /\ built = "none"
    /\ built' = BuildCheck(rb)
    /\ exec' = IF BuildCheck(rb) = "Ok" THEN Capture(rb) ELSE NoExec
    /\ exec0' = exec'
    /\ rb' = NewBuilder
    /\ UNCHANGED <<rb_hist, inv, memo, rb_left>>
    /\ UNCHANGED <<artVars, bnVars, cpVars, tnVars, runVars, oaVars, jcVars, ppVars>>

\* CustomRuntime::run / the Deref call: (self.crf)(code)
ExInvoke(src) ==
    /\ built = "Ok"
    /\ inv.pc = "idle"
    /\ inv' = [IdleInv EXCEPT !.pc = "drain", !.src = src]
    /\ UNCHANGED <<rb, rb_hist, built, exec, exec0, memo, rb_left>>
    /\ UNCHANGED <<artVars, bnVars, cpVars, tnVars, runVars, oaVars, jcVars, ppVars>>

\* code.read_to_string(&mut code_str).unwrap()
ExDrain ==
    /\ inv.pc = "drain"
    /\ LET r == ReadToString(inv.src) IN
         inv' = IF r.ok
                THEN [inv EXCEPT !.pc = "pre", !.code = r.val]
                ELSE [inv EXCEPT !.pc = "panicked", !.failedAt = "drain",
                                 !.result = [kind |-> "panic", val |-> NoVal, err |-> NoCErr]]
    /\ UNCHANGED <<rb, rb_hist, built, exec, exec0, memo, rb_left>>
    /\ UNCHANGED <<artVars, bnVars, cpVars, tnVars, runVars, oaVars, jcVars, ppVars>>

\* One turn of the for loop of cf.
ExPreprocess ==
    /\ inv.pc = "pre"
    /\ inv.i <= Len(exec.preprocessors)
    /\ LET p == ExecStageAt(exec.preprocessors, inv.i)
           r == Preprocess(p, inv.code)
           l == Append(inv.log, LogEntry("pre", p, inv.code, "none"))
       IN inv' = IF r.ok
                 THEN [inv EXCEPT !.code = r.val, !.i = @ + 1, !.log = l]
                 ELSE [inv EXCEPT !.i = @ + 1, !.log = l,
                                  !.failedAt = "pre", !.preErr = r.err,
                                  !.pc = ExOnPreErr(r.err).pc,
                                  !.result = ExOnPreErr(r.err).result]
    /\ UNCHANGED <<rb, rb_hist, built, exec, exec0, memo, rb_left>>
    /\ UNCHANGED <<artVars, bnVars, cpVars, tnVars, runVars, oaVars, jcVars, ppVars>>

\* compiler.compile(&mut code.as_bytes(), compiler_config.clone())?
ExCompile ==
    /\ inv.pc = "pre"
    /\ inv.i > Len(exec.preprocessors)
    /\ LET r == Compile(inv.code, exec.compiler_config)
           l == Append(inv.log, LogEntry("compile", exec.compiler_config, inv.code, "none"))
       IN inv' = IF r.ok
                 THEN [inv EXCEPT !.pc = "run", !.art = r.art, !.log = l,
                                  !.dir = "exists"]
                 ELSE [inv EXCEPT !.pc = "done", !.log = l,
                                  !.failedAt = IF @ = "none" THEN "compile" ELSE @,
                                  !.result = TagCompilation(r.err)]
    /\ exec' = [exec EXCEPT !.compiler_config = AfterCloneCompilerConfig(@)]
    /\ UNCHANGED <<rb, rb_hist, built, exec0, memo, rb_left>>
    /\ UNCHANGED <<artVars, bnVars, cpVars, tnVars, runVars, oaVars, jcVars, ppVars>>

\* (rf)(&compiled_code): runtime.run(compiled_code, runtime_config.clone())
ExRun ==
    /\ inv.pc = "run"
    /\ LET r == Run(inv.art, exec.runtime_config)
           l == Append(inv.log, LogEntry("run", exec.runtime_config, inv.art.code, inv.art.cfg))
       IN inv' = IF r.ok
                 THEN [inv EXCEPT !.pc = "drop", !.log = l,
                                  !.result = [kind |-> "Ok", val |-> r.val, err |-> NoCErr]]
                 ELSE [inv EXCEPT !.pc = "drop", !.log = l,
                                  !.failedAt = IF @ = "none" THEN "run" ELSE @,
                                  !.result = TagRuntime(r.err)]
    /\ exec' = [exec EXCEPT !.runtime_config = AfterCloneRuntimeConfig(@)]
    /\ UNCHANGED <<rb, rb_hist, built, exec0, memo, rb_left>>
    /\ UNCHANGED <<artVars, bnVars, cpVars, tnVars, runVars, oaVars, jcVars, ppVars>>

\* The closure ends with the runtime's result in hand, Ok or Err, and
\* compiled_code is dropped: clean_up().unwrap() removes the scratch
\* directory, and panics when the host refuses the removal.
ExDropArtifact(ok) ==
    /\ inv.pc = "drop"
    /\ inv' = IF ok
              THEN [inv EXCEPT !.pc = "done", !.dir = DropArtifact(@)]
              ELSE [inv EXCEPT !.pc = "panicked",
                               !.result = [kind |-> "panic", val |-> NoVal,
                                           err |-> NoCErr]]
    /\ UNCHANGED <<rb, rb_hist, built, exec, exec0, memo, rb_left>>
    /\ UNCHANGED <<artVars, bnVars, cpVars, tnVars, runVars, oaVars, jcVars, ppVars>>

\* The call is over; the caller may keep its source and result to compare
\* with those of later calls.
ExReturn ==
    /\ inv.pc \in {"done", "panicked"}
    /\ inv' = IdleInv
    /\ rb_left' = [returned |-> rb_left.returned \/
                                  (inv.pc = "done" /\ inv.dir = "exists"),
                   panicked |-> rb_left.panicked \/
                                  (inv.pc = "panicked" /\ inv.dir = "exists")]
    /\ memo' \in {memo, [set |-> TRUE, src |-> inv.src, result |-> inv.result]}
    /\ UNCHANGED <<rb, rb_hist, built, exec, exec0>>
    /\ UNCHANGED <<artVars, bnVars, cpVars, tnVars, runVars, oaVars, jcVars, ppVars>>

NextBuilder ==
    \/ \E x \in PreIds \cup BundleValues : RbPreprocessor(x)
    \/ \E cfg \in {"None"} \cup CompilerConfigs : RbCompiler(cfg)
    \/ \E cfg \in {"None"} \cup RuntimeConfigs : RbRuntime(cfg)
    \/ RbBuild
    \/ \E src \in ExecSources : ExInvoke(src)
    \/ ExDrain
    \/ ExPreprocess
    \/ ExCompile
    \/ ExRun
    \/ \E ok \in BOOLEAN : ExDropArtifact(ok)
    \/ ExReturn

(***************************************************************************)
(* Compiler adapters: compilers/{rust,cpp,python,js}_compiler.rs.          *)
(* One compile call at a time.  A call has at most two frames: the adapter *)
(* that was called and, in cython mode, the CppCompiler it delegates to.   *)
(* Each frame creates at most one temporary directory.                     *)
(***************************************************************************)
Programs == {"rustc", "clang++", "python3", "node", "cython", "javy"}
EnvVars == {"WASI_SYSROOT", "JAVY_PATH"}
Frames == {1, 2}
ExitStatuses == {0, 1}

\* The stderr a toolchain process leaves in its pipe.
ToolStderrs == SeqsUpTo({"a", "xFF"}, MaxErrLen)

\* The impls of Compiler<R>; use_cython is a field of PythonCompilerConfig.
CompileCalls ==
    {[lang |-> l, rt |-> r, cython |-> c] :
        l \in {"rust", "cpp", "python", "js"}, r \in {"native", "wasm"},
        c \in BOOLEAN} \ 
    {[lang |-> l, rt |-> r, cython |-> TRUE] :
        l \in {"rust", "cpp", "js"}, r \in {"native", "wasm"}}

NoCall == [lang |-> "none", rt |-> "none", cython |-> FALSE]

\* CompilationError, and a panic as a fourth way out.
NoCpErr == [kind |-> "none", program |-> "", stderr |-> <<>>]
IoError == [kind |-> "IoError", program |-> "", stderr |-> <<>>]
CompilationFailed(e) == [kind |-> "CompilationFailed", program |-> "", stderr |-> e]
ProgramNotInstalled(p) == [kind |-> "ProgramNotInstalled", program |-> p, stderr |-> <<>>]
Panic == [kind |-> "panic", program |-> "", stderr |-> <<>>]

\* String::from_utf8_lossy: bytes that are not UTF-8 become U+FFFD.
FromUtf8Lossy(bytes) ==
    [k \in 1..Len(bytes) |-> IF bytes[k] \in Chars THEN bytes[k] ELSE "uFFFD"]

\* check_program_installed: which::which(program) decides.
CheckProgramInstalled(program, path) ==
    IF program \in path THEN NoCpErr ELSE ProgramNotInstalled(program)

\* The source file a frame writes into its directory.
CodeFile(lang) ==
    CASE lang = "rust" -> "code-tmp.rs"
      [] lang = "cpp" -> "code-tmp.cpp"
      [] lang = "python" -> "code.py"
      [] OTHER -> "code.js"

\* Command::new(..): the process a frame spawns.
SpawnProgram(lang) ==
    CASE lang = "rust" -> "rustc"
      [] lang = "cpp" -> "clang++"
      [] lang = "python" -> "cython"
      [] OTHER -> "javy"

\* The file that process writes when it exits with status 0 (-o <file>).
OutputName(lang, rt) ==
    CASE lang = "python" -> "code.cpp"
      [] lang = "js" -> "code.wasm"
      [] rt = "wasm" -> "executable.wasm"
      [] OTHER -> "executable"

\* CompiledCode.executable of the artifact a frame returns.
ExecutableName(lang, rt) ==
    CASE lang = "python" -> "code.py"
      [] lang = "js" /\ rt = "native" -> "code.js"
      [] OTHER -> OutputName(lang, rt)

\* NativeAdditionalData.program of the artifact a frame returns.
ProgramOf(lang, rt) ==
    CASE lang = "python" -> "python3"
      [] lang = "js" /\ rt = "native" -> "node"
      [] OTHER -> ""

NoDisk == [state |-> "none", files |-> {}]

\* Drop of a TempDir a frame still owns: the directory is removed.
LeakTempDir(disk, owner, d) == disk
DropTempDir(disk, owner, d) ==
    IF owner[d] = "frame"
    THEN [disk EXCEPT ![d] = [state |-> "deleted", files |-> {}]]
    ELSE disk

NoCpRet == [kind |-> "none", err |-> NoCpErr, dir |-> 0, executable |-> "",
            program |-> ""]

CheckEvent(p, found) ==
    [ev |-> "check", program |-> p, ok |-> found, status |-> 0, stderr |-> <<>>]
SpawnEvent(p, st, e) ==
    [ev |-> "spawn", program |-> p, ok |-> TRUE, status |-> st, stderr |-> e]
NotFoundEvent(p) ==
    [ev |-> "spawn", program |-> p, ok |-> FALSE, status |-> 0, stderr |-> <<>>]
\* A file-system or process operation the host refused.
IoEvent ==
    [ev |-> "io", program |-> "", ok |-> FALSE, status |-> 0, stderr |-> <<>>]

CpInit ==
    /\ cp_pc = "idle"
    /\ cp_call = NoCall
    /\ cp_path = {}
    /\ cp_env = {}
    /\ cp_depth = 0
    /\ cp_disk = [d \in Frames |-> NoDisk]
    /\ cp_owner = [d \in Frames |-> "none"]
    /\ cp_pending = NoCpErr
    /\ cp_log = <<>>
    /\ cp_ret = NoCpRet

\* The adapter of the running frame, and the runtime it compiles for.
CpLang == IF cp_depth = 2 THEN "cpp" ELSE cp_call.lang
CpRt == IF cp_depth = 2 THEN "native" ELSE cp_call.rt

\* A caller invokes Compiler::compile on one adapter, on a host with the
\* given PATH and environment.
CompileCall(call, path, env) ==
    /\ cp_pc = "idle"
    /\ cp_call' = call
    /\ cp_path' = path
    /\ cp_env' = env
    /\ cp_depth' = 1
    /\ cp_pc' = CASE call.lang \in {"rust", "cpp"} -> "check"
                  [] call.lang = "python" /\ call.rt = "wasm" -> "unwind"
                  [] OTHER -> "tempdir"
    /\ cp_pending' = IF call.lang = "python" /\ call.rt = "wasm"
                     THEN Panic ELSE NoCpErr
    /\ UNCHANGED <<cp_disk, cp_owner, cp_log, cp_ret>>
    /\ UNCHANGED <<artVars, bnVars, rbVars, tnVars, runVars, oaVars, jcVars, ppVars>>

\* rust_compiler.rs: check_program_installed("rustc")?
RustCheck ==
    /\ cp_pc = "check"
    /\ CpLang = "rust"
    /\ LET r == CheckProgramInstalled("rustc", cp_path) IN
        /\ cp_log' = Append(cp_log, CheckEvent("rustc", r = NoCpErr))
        /\ cp_pending' = r
        /\ cp_pc' = IF r = NoCpErr THEN "tempdir" ELSE "ret_err"
    /\ UNCHANGED <<cp_call, cp_path, cp_env, cp_depth, cp_disk, cp_owner, cp_ret>>
    /\ UNCHANGED <<artVars, bnVars, rbVars, tnVars, runVars, oaVars, jcVars, ppVars>>

\* cpp_compiler.rs: check_program_installed("clang++"); the Result is
\* dropped, the call goes on either way.
CppCheck ==
    /\ cp_pc = "check"
    /\ CpLang = "cpp"
    /\ LET r == CheckProgramInstalled("clang++", cp_path) IN
        cp_log' = Append(cp_log, CheckEvent("clang++", r = NoCpErr))
    /\ cp_pc' = IF CpRt = "wasm" THEN "sysroot" ELSE "tempdir"
    /\ UNCHANGED <<cp_call, cp_path, cp_env, cp_depth, cp_disk, cp_owner,
                   cp_pending, cp_ret>>
    /\ UNCHANGED <<artVars, bnVars, rbVars, tnVars, runVars, oaVars, jcVars, ppVars>>

\* std::env::var("WASI_SYSROOT").expect(..)
CppSysroot ==
    /\ cp_pc = "sysroot"
    /\ IF "WASI_SYSROOT" \in cp_env
       THEN cp_pc' = "tempdir" /\ UNCHANGED cp_pending
       ELSE cp_pc' = "unwind" /\ cp_pending' = Panic
    /\ UNCHANGED <<cp_call, cp_path, cp_env, cp_depth, cp_disk, cp_owner,
                   cp_log, cp_ret>>
    /\ UNCHANGED <<artVars, bnVars, rbVars, tnVars, runVars, oaVars, jcVars, ppVars>>

\* tempfile::..tempdir()?  (JsCompiler: tempfile::tempdir().unwrap())
MakeTempDir(ok) ==
    /\ cp_pc = "tempdir"
    /\ IF ok
       THEN /\ cp_disk' = [cp_disk EXCEPT ![cp_depth] =
                              [state |-> "live", files |-> {}]]
            /\ cp_owner' = [cp_owner EXCEPT ![cp_depth] = "frame"]
            /\ cp_pc' = "codefile"
            /\ UNCHANGED <<cp_pending, cp_log>>
       ELSE /\ cp_pending' = IF CpLang = "js" THEN Panic ELSE IoError
            /\ cp_pc' = IF CpLang = "js" THEN "unwind" ELSE "ret_err"
            /\ cp_log' = Append(cp_log, IoEvent)
            /\ UNCHANGED <<cp_disk, cp_owner>>
    /\ UNCHANGED <<cp_call, cp_path, cp_env, cp_depth, cp_ret>>
    /\ UNCHANGED <<artVars, bnVars, rbVars, tnVars, runVars, oaVars, jcVars, ppVars>>

\* The code file is created in the directory and the source copied into it.
WriteCode(ok) ==
    /\ cp_pc = "codefile"
    /\ IF ok
       THEN /\ cp_disk' = [cp_disk EXCEPT ![cp_depth].files = @ \cup {CodeFile(CpLang)}]
            /\ cp_pc' = CASE CpLang \in {"rust", "cpp"} -> "spawn"
                          [] CpLang = "python" ->
                               IF cp_call.cython THEN "cython_check" ELSE "ret_ok"
                          [] CpRt = "native" -> "node_check"
                          [] OTHER -> "javy_path"
            /\ UNCHANGED <<cp_pending, cp_log>>
       ELSE /\ cp_pending' = IF CpLang = "js" THEN Panic ELSE IoError
            /\ cp_pc' = IF CpLang = "js" THEN "unwind" ELSE "ret_err"
            /\ cp_log' = Append(cp_log, IoEvent)
            /\ UNCHANGED cp_disk
    /\ UNCHANGED <<cp_call, cp_path, cp_env, cp_depth, cp_owner, cp_ret>>
    /\ UNCHANGED <<artVars, bnVars, rbVars, tnVars, runVars, oaVars, jcVars, ppVars>>

\* python_compiler.rs: check_program_installed("cython")?
CythonCheck ==
    /\ cp_pc = "cython_check"
    /\ LET r == CheckProgramInstalled("cython", cp_path) IN
        /\ cp_log' = Append(cp_log, CheckEvent("cython", r = NoCpErr))
        /\ cp_pending' = r
        /\ cp_pc' = IF r = NoCpErr THEN "spawn" ELSE "ret_err"
    /\ UNCHANGED <<cp_call, cp_path, cp_env, cp_depth, cp_disk, cp_owner, cp_ret>>
    /\ UNCHANGED <<artVars, bnVars, rbVars, tnVars, runVars, oaVars, jcVars, ppVars>>

\* js_compiler.rs: check_program_installed("node").unwrap()
NodeCheck ==
    /\ cp_pc = "node_check"
    /\ LET r == CheckProgramInstalled("node", cp_path) IN
        /\ cp_log' = Append(cp_log, CheckEvent("node", r = NoCpErr))
        /\ cp_pending' = IF r = NoCpErr THEN NoCpErr ELSE Panic
        /\ cp_pc' = IF r = NoCpErr THEN "ret_ok" ELSE "unwind"
    /\ UNCHANGED <<cp_call, cp_path, cp_env, cp_depth, cp_disk, cp_owner, cp_ret>>
    /\ UNCHANGED <<artVars, bnVars, rbVars, tnVars, runVars, oaVars, jcVars, ppVars>>

\* js_compiler.rs: std::env::var("JAVY_PATH").expect(..)
JavyPath ==
    /\ cp_pc = "javy_path"
    /\ IF "JAVY_PATH" \in cp_env
       THEN cp_pc' = "spawn" /\ UNCHANGED cp_pending
       ELSE cp_pc' = "unwind" /\ cp_pending' = Panic
    /\ UNCHANGED <<cp_call, cp_path, cp_env, cp_depth, cp_disk, cp_owner,
                   cp_log, cp_ret>>
    /\ UNCHANGED <<artVars, bnVars, rbVars, tnVars, runVars, oaVars, jcVars, ppVars>>

\* command.spawn()?.wait_with_output()?  (JsCompiler: Command::output()?).
\* Spawning fails when the program is not found, or when the host refuses;
\* a process that exits with status 0 has written its output file.
SpawnTool(ok, status, stderr) ==
    /\ cp_pc = "spawn"
    /\ LET p == SpawnProgram(CpLang) IN
       IF ok /\ p \in cp_path
       THEN /\ cp_log' = Append(cp_log, SpawnEvent(p, status, stderr))
            /\ cp_disk' = IF status = 0
                          THEN [cp_disk EXCEPT ![cp_depth].files =
                                   @ \cup {OutputName(CpLang, CpRt)}]
                          ELSE cp_disk
            /\ cp_pc' = IF CpLang = "js" THEN "ret_ok" ELSE "status"
            /\ UNCHANGED cp_pending
       ELSE /\ cp_pending' = IoError
            /\ cp_pc' = "ret_err"
            /\ cp_log' = Append(cp_log, IF ok THEN NotFoundEvent(p) ELSE IoEvent)
            /\ UNCHANGED cp_disk
    /\ UNCHANGED <<cp_call, cp_path, cp_env, cp_depth, cp_owner, cp_ret>>
    /\ UNCHANGED <<artVars, bnVars, rbVars, tnVars, runVars, oaVars, jcVars, ppVars>>

\* if !output.status.success() { return Err(CompilationFailed(stderr)) }
CheckStatus ==
    /\ cp_pc = "status"
    /\ LET out == cp_log[Len(cp_log)] IN
       IF out.status # 0
       THEN /\ cp_pending' = CompilationFailed(FromUtf8Lossy(out.stderr))
            /\ cp_pc' = "ret_err"
       ELSE /\ cp_pc' = IF CpLang = "python" THEN "open_cpp" ELSE "ret_ok"
            /\ UNCHANGED cp_pending
    /\ UNCHANGED <<cp_call, cp_path, cp_env, cp_depth, cp_disk, cp_owner,
                   cp_log, cp_ret>>
    /\ UNCHANGED <<artVars, bnVars, rbVars, tnVars, runVars, oaVars, jcVars, ppVars>>

\* python_compiler.rs: File::open(code.cpp)?, then CppCompiler.compile(..)
OpenCpp(ok) ==
    /\ cp_pc = "open_cpp"
    /\ IF ok
       THEN cp_depth' = 2 /\ cp_pc' = "check" /\ UNCHANGED <<cp_pending, cp_log>>
       ELSE /\ cp_pending' = IoError
            /\ cp_pc' = "ret_err"
            /\ cp_log' = Append(cp_log, IoEvent)
            /\ UNCHANGED cp_depth
    /\ UNCHANGED <<cp_call, cp_path, cp_env, cp_disk, cp_owner, cp_ret>>
    /\ UNCHANGED <<artVars, bnVars, rbVars, tnVars, runVars, oaVars, jcVars, ppVars>>

\* Ok(CompiledCode { executable, temp_dir_handle: Arc::new(Mutex::new(Some(
\* temp_dir))), .. }): the directory moves into the artifact.  The
\* NamedTempFile of the Rust and C++ adapters is dropped on the way out.
ReturnOk ==
    /\ cp_pc = "ret_ok"
    /\ cp_owner' = [cp_owner EXCEPT ![cp_depth] = "artifact"]
    /\ cp_disk' = IF CpLang \in {"rust", "cpp"}
                  THEN [cp_disk EXCEPT ![cp_depth].files = @ \ {CodeFile(CpLang)}]
                  ELSE cp_disk
    /\ cp_ret' = [kind |-> "Ok", err |-> NoCpErr, dir |-> cp_depth,
                  executable |-> ExecutableName(CpLang, CpRt),
                  program |-> ProgramOf(CpLang, CpRt)]
    /\ cp_pc' = IF cp_depth = 2 THEN "delegated" ELSE "done"
    /\ UNCHANGED <<cp_call, cp_path, cp_env, cp_depth, cp_pending, cp_log>>
    /\ UNCHANGED <<artVars, bnVars, rbVars, tnVars, runVars, oaVars, jcVars, ppVars>>

\* python_compiler.rs: return Ok(compiled); the adapter's own temp_dir is
\* dropped.
DelegateReturn ==
    /\ cp_pc = "delegated"
    /\ cp_depth' = 1
    /\ cp_disk' = DropTempDir(cp_disk, cp_owner, 1)
    /\ cp_owner' = [cp_owner EXCEPT ![1] = "none"]
    /\ cp_pc' = "done"
    /\ UNCHANGED <<cp_call, cp_path, cp_env, cp_pending, cp_log, cp_ret>>
    /\ UNCHANGED <<artVars, bnVars, rbVars, tnVars, runVars, oaVars, jcVars, ppVars>>

\* `?` and `return Err(..)`: the frame's locals are dropped, the error goes
\* to the caller; in the delegating adapter it meets another `?`.
ReturnErr ==
    /\ cp_pc = "ret_err"
    /\ cp_disk' = DropTempDir(cp_disk, cp_owner, cp_depth)
    /\ cp_owner' = [cp_owner EXCEPT ![cp_depth] = "none"]
    /\ IF cp_depth = 2
       THEN cp_depth' = 1 /\ cp_pc' = "ret_err" /\ UNCHANGED cp_ret
       ELSE /\ cp_pc' = "done"
            /\ cp_ret' = [NoCpRet EXCEPT !.kind = "Err", !.err = cp_pending]
            /\ UNCHANGED cp_depth
    /\ UNCHANGED <<cp_call, cp_path, cp_env, cp_pending, cp_log>>
    /\ UNCHANGED <<artVars, bnVars, rbVars, tnVars, runVars, oaVars, jcVars, ppVars>>

\* unwrap / expect / panic!: the stack unwinds, dropping the locals.
Unwind ==
    /\ cp_pc = "unwind"
    /\ cp_disk' = DropTempDir(cp_disk, cp_owner, cp_depth)
    /\ cp_owner' = [cp_owner EXCEPT ![cp_depth] = "none"]
    /\ cp_pc' = "done"
    /\ cp_ret' = [NoCpRet EXCEPT !.kind = "panic", !.err = cp_pending]
    /\ UNCHANGED <<cp_call, cp_path, cp_env, cp_depth, cp_pending, cp_log>>
    /\ UNCHANGED <<artVars, bnVars, rbVars, tnVars, runVars, oaVars, jcVars, ppVars>>

NextCompile ==
    \/ \E call \in CompileCalls : \E path \in SUBSET Programs :
         \E env \in SUBSET EnvVars : CompileCall(call, path, env)
    \/ RustCheck
    \/ CppCheck
    \/ CppSysroot
    \/ \E ok \in BOOLEAN : MakeTempDir(ok)
    \/ \E ok \in BOOLEAN : WriteCode(ok)
    \/ CythonCheck
    \/ NodeCheck
    \/ JavyPath
    \/ \E ok \in BOOLEAN : \E status \in ExitStatuses :
         \E stderr \in ToolStderrs : SpawnTool(ok, status, stderr)
    \/ CheckStatus
    \/ OpenCpp(TRUE) \/ OpenCpp(FALSE)
    \/ ReturnOk
    \/ DelegateReturn
    \/ ReturnErr
    \/ Unwind

(***************************************************************************)
(* LimitingTunables: common/runtime.rs, installed by WasmRuntime::run.     *)
(* A usize is kept as hi * 2^32 + lo, so that `as u32` is what it is on a  *)
(* 64-bit host: the low word.                                              *)
(***************************************************************************)
None == <<>>
Some(x) == <<x>>

UsizeHighWords == {0, 1}
UsizeValues == [hi : UsizeHighWords, lo : 0..MaxPages]
Usize(n) == [hi |-> 0, lo |-> n]

\* config.memory_limit != 0
IsNonZero(m) == m.hi # 0 \/ m.lo # 0

\* config.memory_limit as u32
AsU32(m) == m.lo

\* MemoryType { minimum, maximum: Option<Pages> } of a module's memory.
MemoryTypes ==
    {[minimum |-> a, maximum |-> None] : a \in 0..MaxPages} \cup
    {[minimum |-> a, maximum |-> Some(b)] : a \in 0..MaxPages, b \in 0..MaxPages}

MemoryEntries == {"create_host_memory", "create_vm_memory"}

\* LimitingTunables::adjust_memory
AdjustNothing(limit, requested) == requested
AdjustMemory(limit, requested) ==
    IF requested.maximum = None
    THEN [requested EXCEPT !.maximum = Some(limit)]
    ELSE requested

\* LimitingTunables::validate_memory: "" for Ok(()), else the message of
\* MemoryError::Generic.
ValidateMemory(limit, memory) ==
    CASE memory.minimum > limit -> "Minimum memory exceeds the limit"
      [] memory.maximum # None /\ memory.maximum[1] > limit ->
            "Maximum memory exceeds the limit"
      [] memory.maximum = None -> "Maxiumum memory is not specified"
      [] OTHER -> ""

NoTunables == [installed |-> FALSE, limit |-> 0]
NoMemory == [minimum |-> 0, maximum |-> None]
NoTnRet == [kind |-> "none", msg |-> "", ty |-> NoMemory]

TnInit ==
    /\ tn_pc = "engine"
    /\ tn_memory_limit = Usize(0)
    /\ tn_tunables = NoTunables
    /\ tn_entry = "none"
    /\ tn_ty = NoMemory
    /\ tn_adjusted = NoMemory
    /\ tn_ret = NoTnRet

\* wasm_runtime.rs: if config.memory_limit != 0 { engine.set_tunables(
\* LimitingTunables::new(Pages(config.memory_limit as u32), base)) }
SetTunables(m) ==
    /\ tn_pc = "engine"
    /\ tn_memory_limit' = m
    /\ tn_tunables' = IF IsNonZero(m)
                      THEN [installed |-> TRUE, limit |-> AsU32(m)]
                      ELSE NoTunables
    /\ tn_pc' = "ready"
    /\ UNCHANGED <<tn_entry, tn_ty, tn_adjusted, tn_ret>>
    /\ UNCHANGED <<artVars, bnVars, rbVars, cpVars, runVars, oaVars, jcVars, ppVars>>

\* The VM asks the engine's tunables for a memory of the module's type.
\* Without LimitingTunables the request goes to BaseTunables as it is.
CreateMemory(entry, ty) ==
    /\ tn_pc = "ready"
    /\ tn_entry' = entry
    /\ tn_ty' = ty
    /\ IF tn_tunables.installed
       THEN tn_pc' = "adjust" /\ UNCHANGED tn_ret
       ELSE tn_pc' = "done" /\ tn_ret' = [kind |-> "Ok", msg |-> "", ty |-> ty]
    /\ UNCHANGED <<tn_memory_limit, tn_tunables, tn_adjusted>>
    /\ UNCHANGED <<artVars, bnVars, rbVars, cpVars, runVars, oaVars, jcVars, ppVars>>

\* let adjusted = self.adjust_memory(ty);
TnAdjust ==
    /\ tn_pc = "adjust"
    /\ tn_adjusted' = AdjustMemory(tn_tunables.limit, tn_ty)
    /\ tn_pc' = "validate"
    /\ UNCHANGED <<tn_memory_limit, tn_tunables, tn_entry, tn_ty, tn_ret>>
    /\ UNCHANGED <<artVars, bnVars, rbVars, cpVars, runVars, oaVars, jcVars, ppVars>>

\* self.validate_memory(&adjusted)?;
TnValidate ==
    /\ tn_pc = "validate"
    /\ LET msg == ValidateMemory(tn_tunables.limit, tn_adjusted) IN
       IF msg = ""
       THEN tn_pc' = "base" /\ UNCHANGED tn_ret
       ELSE tn_pc' = "done" /\ tn_ret' = [kind |-> "Err", msg |-> msg, ty |-> NoMemory]
    /\ UNCHANGED <<tn_memory_limit, tn_tunables, tn_entry, tn_ty, tn_adjusted>>
    /\ UNCHANGED <<artVars, bnVars, rbVars, cpVars, runVars, oaVars, jcVars, ppVars>>

\* self.base.create_host_memory(&adjusted, style) / create_vm_memory(..)
TnBaseCreate ==
    /\ tn_pc = "base"
    /\ tn_ret' = [kind |-> "Ok", msg |-> "", ty |-> tn_adjusted]
    /\ tn_pc' = "done"
    /\ UNCHANGED <<tn_memory_limit, tn_tunables, tn_entry, tn_ty, tn_adjusted>>
    /\ UNCHANGED <<artVars, bnVars, rbVars, cpVars, runVars, oaVars, jcVars, ppVars>>

\* The VM goes on to the next memory it has to create.
TnNextMemory ==
    /\ tn_pc = "done"
    /\ tn_pc' = "ready"
    /\ tn_entry' = "none"
    /\ tn_ty' = NoMemory
    /\ tn_adjusted' = NoMemory
    /\ tn_ret' = NoTnRet
    /\ UNCHANGED <<tn_memory_limit, tn_tunables>>
    /\ UNCHANGED <<artVars, bnVars, rbVars, cpVars, runVars, oaVars, jcVars, ppVars>>

NextTunables ==
    \/ \E m \in UsizeValues : SetTunables(m)
    \/ \E entry \in MemoryEntries : \E ty \in MemoryTypes : CreateMemory(entry, ty)
    \/ TnAdjust
    \/ TnValidate
    \/ TnBaseCreate
    \/ TnNextMemory

(***************************************************************************)
(* Runtime inputs: common/runtime.rs (InputData), the host's files, and    *)
(* the process a native or jailed run spawns.                              *)
(***************************************************************************)
Ignore == [kind |-> "Ignore", text |-> <<>>, path |-> ""]
StringInput(s) == [kind |-> "String", text |-> s, path |-> ""]
FileInput(p) == [kind |-> "File", text |-> <<>>, path |-> p]

StdinTexts == SeqsUpTo({"a"}, MaxInLen)
InputDatas == {Ignore, FileInput("in.txt")} \cup {StringInput(s) : s \in StdinTexts}

\* What the host has at the path of a File descriptor.
NoFile == [exists |-> FALSE, content |-> <<>>]
FileStates == {NoFile} \cup {[exists |-> TRUE, content |-> c] : c \in {<<>>, <<"a", "nl">>}}

\* NativeAdditionalData.program, and whether the host finds it on PATH.
SidePrograms == {None, Some("python3")}

\* which::which(program): the path of the program.
Which(p) == IF p = "python3" THEN "/usr/bin/python3" ELSE "/usr/bin/bash"

\* The child: what it writes to its stdout and stderr, how it ends
\* (ExitStatus::code() is None for a child ended by a signal), and whether
\* it keeps its stdin open for all that is written to it.
ChildStdouts == SeqsUpTo({"a", "xFF"}, MaxOutLen)
ChildStderrs == {<<>>, <<"b">>}
ExitCodes == {None, Some(0), Some(1)}
Children == [stdout : ChildStdouts, stderr : ChildStderrs, code : ExitCodes,
             reads : BOOLEAN]
NoChild == [stdout |-> <<>>, stderr |-> <<>>, code |-> None, reads |-> FALSE]

\* String::from_utf8
FromUtf8(bytes) ==
    IF \A k \in 1..Len(bytes) : bytes[k] \in Chars \cup {"nl"}
    THEN [ok |-> TRUE, val |-> bytes]
    ELSE [ok |-> FALSE, val |-> <<>>]

\* match output.stdout.len() { 0 => None, _ => Some(String::from_utf8(..)) }
AlwaysSome(bytes) == Some(bytes)
CaptureStream(bytes) == IF Len(bytes) = 0 THEN None ELSE Some(bytes)

\* output.status.code().unwrap_or(0)
UnwrapOr(opt, dflt) == IF opt = None THEN dflt ELSE opt[1]

\* A write to the child's stdin pipe: everything, or BrokenPipe.
PipeAccepts(child, bytes) == child.reads \/ bytes = <<>>

NoRunRet == [kind |-> "none", err |-> "", stdout |-> None, stderr |-> None,
             exit_code |-> 0]
NoRun == [pc |-> "idle", argv |-> <<>>, stdin_cfg |-> "none", spawned |-> FALSE,
          waited |-> FALSE, timer |-> "off", delivered |-> <<>>,
          output |-> NoChild, log |-> <<>>, ret |-> NoRunRet]
RunErr(e) == [NoRunRet EXCEPT !.kind = "Err", !.err = e]
RunPanic == [NoRunRet EXCEPT !.kind = "panic"]

NoInputs == [program |-> None, onpath |-> FALSE, stdin |-> Ignore, file |-> NoFile]
NoHost == [family |-> "none", uid |-> 0]
Hosts == {[family |-> "unix", uid |-> 0], [family |-> "unix", uid |-> 1000],
          [family |-> "windows", uid |-> 0]}

NjInit ==
    /\ nj_in = NoInputs
    /\ nj_child = [chosen |-> FALSE, is |-> NoChild]
    /\ nj_host = NoHost
    /\ nj_scratch = {"executable"}
    /\ nat = NoRun
    /\ jl = NoRun

(***************************************************************************)
(* NativeRuntime::run: runtimes/native_runtime.rs.                         *)
(***************************************************************************)
\* A caller runs an artifact natively.  The host has the File descriptor's
\* file or not; without a File descriptor no file matters.
NativeCall(program, onpath, stdin, file) ==
    /\ nat.pc = "idle" /\ jl.pc = "idle" /\ wz.pc = "idle"
    /\ program = None => ~onpath
    /\ stdin.kind # "File" => file = NoFile
    /\ nj_in' = [program |-> program, onpath |-> onpath, stdin |-> stdin, file |-> file]
    /\ nat' = [nat EXCEPT !.pc = "command"]
    /\ UNCHANGED <<nj_child, nj_host, nj_scratch, jl, wzVars>>
    /\ UNCHANGED <<artVars, bnVars, rbVars, cpVars, tnVars, oaVars, jcVars, ppVars>>

\* match &code.additional_data.program { Some(program) => ..., None => ... }
NativeCommand ==
    /\ nat.pc = "command"
    /\ nat' = [nat EXCEPT
                 !.argv = IF nj_in.program = None
                          THEN <<"executable">>
                          ELSE <<nj_in.program[1], "executable">>,
                 !.log = Append(@, "command"),
                 !.pc = "stdio"]
    /\ UNCHANGED <<nj_in, nj_child, nj_host, nj_scratch, jl, wzVars>>
    /\ UNCHANGED <<artVars, bnVars, rbVars, cpVars, tnVars, oaVars, jcVars, ppVars>>

\* match config.stdin { Ignore => Stdio::null(), _ => Stdio::piped() };
\* stdout and stderr piped.
NativeStdio ==
    /\ nat.pc = "stdio"
    /\ nat' = [nat EXCEPT
                 !.stdin_cfg = IF nj_in.stdin.kind = "Ignore" THEN "null" ELSE "piped",
                 !.log = Append(@, "stdio"),
                 !.pc = "spawn"]
    /\ UNCHANGED <<nj_in, nj_child, nj_host, nj_scratch, jl, wzVars>>
    /\ UNCHANGED <<artVars, bnVars, rbVars, cpVars, tnVars, oaVars, jcVars, ppVars>>

\* let mut process = process.spawn()?;  The program named by the side-data
\* must be found; the host may refuse for reasons of its own.
NativeSpawn(ok, child) ==
    /\ nat.pc = "spawn"
    /\ nj_child.chosen => child = nj_child.is
    /\ IF ok /\ (nj_in.program # None => nj_in.onpath)
       THEN /\ nat' = [nat EXCEPT !.spawned = TRUE, !.log = Append(@, "spawn"),
                                  !.pc = "timer_start"]
            /\ nj_child' = [chosen |-> TRUE, is |-> child]
       ELSE /\ nat' = [nat EXCEPT !.ret = RunErr("IOError"), !.pc = "done"]
            /\ UNCHANGED nj_child
    /\ UNCHANGED <<nj_in, nj_host, nj_scratch, jl, wzVars>>
    /\ UNCHANGED <<artVars, bnVars, rbVars, cpVars, tnVars, oaVars, jcVars, ppVars>>

\* let start_time = std::time::Instant::now();
NativeTimerStart ==
    /\ nat.pc = "timer_start"
    /\ nat' = [nat EXCEPT !.timer = "running", !.log = Append(@, "timer_start"),
                          !.pc = "write_stdin"]
    /\ UNCHANGED <<nj_in, nj_child, nj_host, nj_scratch, jl, wzVars>>
    /\ UNCHANGED <<artVars, bnVars, rbVars, cpVars, tnVars, oaVars, jcVars, ppVars>>

\* match config.stdin { Ignore => {}, String(data) => write_all(data.as_bytes())?,
\*                      File(path) => { File::open(path)?; io::copy(..)? } }
NativeWriteStdin ==
    /\ nat.pc = "write_stdin"
    /\ LET in == nj_in.stdin
           bytes == CASE in.kind = "String" -> in.text
                      [] in.kind = "File" -> nj_in.file.content
                      [] OTHER -> <<>>
           fails == \/ in.kind = "File" /\ ~nj_in.file.exists
                    \/ in.kind # "Ignore" /\ ~PipeAccepts(nj_child.is, bytes)
       IN IF fails
          THEN nat' = [nat EXCEPT !.ret = RunErr("IOError"), !.pc = "done"]
          ELSE nat' = [nat EXCEPT !.delivered = bytes,
                                  !.log = Append(@, "write_stdin"),
                                  !.pc = "wait"]
    /\ UNCHANGED <<nj_in, nj_child, nj_host, nj_scratch, jl, wzVars>>
    /\ UNCHANGED <<artVars, bnVars, rbVars, cpVars, tnVars, oaVars, jcVars, ppVars>>

\* let output = process.wait_with_output()?;
NativeWait ==
    /\ nat.pc = "wait"
    /\ nat' = [nat EXCEPT !.waited = TRUE, !.output = nj_child.is,
                          !.log = Append(@, "wait"), !.pc = "timer_stop"]
    /\ UNCHANGED <<nj_in, nj_child, nj_host, nj_scratch, jl, wzVars>>
    /\ UNCHANGED <<artVars, bnVars, rbVars, cpVars, tnVars, oaVars, jcVars, ppVars>>

\* let time_taken = start_time.elapsed();
NativeTimerStop ==
    /\ nat.pc = "timer_stop"
    /\ nat' = [nat EXCEPT !.timer = "stopped", !.log = Append(@, "timer_stop"),
                          !.pc = "return"]
    /\ UNCHANGED <<nj_in, nj_child, nj_host, nj_scratch, jl, wzVars>>
    /\ UNCHANGED <<artVars, bnVars, rbVars, cpVars, tnVars, oaVars, jcVars, ppVars>>

\* stdout, stderr and exit_code of the ExecutionResult; from_utf8(..).unwrap()
\* panics on output that is not UTF-8.
NativeReturn ==
    /\ nat.pc = "return"
    /\ LET out == nat.output IN
       IF FromUtf8(out.stdout).ok /\ FromUtf8(out.stderr).ok
       THEN nat' = [nat EXCEPT
                      !.ret = [kind |-> "Ok", err |-> "",
                               stdout |-> CaptureStream(FromUtf8(out.stdout).val),
                               stderr |-> CaptureStream(FromUtf8(out.stderr).val),
                               exit_code |-> UnwrapOr(out.code, 0)],
                      !.log = Append(@, "return"),
                      !.pc = "done"]
       ELSE nat' = [nat EXCEPT !.ret = RunPanic, !.pc = "done"]
    /\ UNCHANGED <<nj_in, nj_child, nj_host, nj_scratch, jl, wzVars>>
    /\ UNCHANGED <<artVars, bnVars, rbVars, cpVars, tnVars, oaVars, jcVars, ppVars>>

(***************************************************************************)
(* JailedRuntime::run: runtimes/jailed_runtime.rs.  The harness runs the   *)
(* jailed runtime on the artifact and configuration the native run had,    *)
(* after the native run has ended; the two share no state.                 *)
(***************************************************************************)
\* fn check_root(): getuid() == 0 on the unix family, false on windows.
AlwaysRoot(host) == TRUE
CheckRoot(host) == host.family = "unix" /\ host.uid = 0

JailedCall ==
    /\ nat.pc = "done" /\ jl.pc = "idle"
    /\ jl' = [jl EXCEPT !.pc = "check_root"]
    /\ UNCHANGED <<nj_in, nj_child, nj_host, nj_scratch, nat, wzVars>>
    /\ UNCHANGED <<artVars, bnVars, rbVars, cpVars, tnVars, oaVars, jcVars, ppVars>>

\* if !check_root() { return Err(io::Error::new(.., "Root is required ..")) }
JailedCheckRoot(host) ==
    /\ jl.pc = "check_root"
    /\ nj_host' = host
    /\ IF CheckRoot(host)
       THEN jl' = [jl EXCEPT !.pc = "jail_script"]
       ELSE jl' = [jl EXCEPT !.ret = RunErr("RootRequired"), !.pc = "done"]
    /\ UNCHANGED <<nj_in, nj_child, nj_scratch, nat, wzVars>>
    /\ UNCHANGED <<artVars, bnVars, rbVars, cpVars, tnVars, oaVars, jcVars, ppVars>>

\* File::create(&jail_path)?; fs::write(&jail_path, JAIL)?;  in the
\* directory of the executable.
JailedScript(ok) ==
    /\ jl.pc = "jail_script"
    /\ IF ok
       THEN /\ nj_scratch' = nj_scratch \cup {"jail.sh"}
            /\ jl' = [jl EXCEPT !.pc = "command"]
       ELSE /\ jl' = [jl EXCEPT !.ret = RunErr("IOError"), !.pc = "done"]
            /\ UNCHANGED nj_scratch
    /\ UNCHANGED <<nj_in, nj_child, nj_host, nat, wzVars>>
    /\ UNCHANGED <<artVars, bnVars, rbVars, cpVars, tnVars, oaVars, jcVars, ppVars>>

\* match &code.additional_data.program { Some(program) => the path of the
\* program and the executable, None => the executable }
BareExecutable(program) == <<"executable">>
JailedArgs(program) ==
    IF program = None THEN <<"executable">>
    ELSE <<Which(program[1]), "executable">>

\* Command::new("bash").arg(jail_path).arg(temp_dir.join("jail")), then
\* which::which(program).unwrap() and the executable, or the executable.
JailedCommand ==
    /\ jl.pc = "command"
    /\ IF nj_in.program # None /\ ~nj_in.onpath
       THEN jl' = [jl EXCEPT !.ret = RunPanic, !.pc = "done"]
       ELSE jl' = [jl EXCEPT
                     !.argv = <<"bash", "jail.sh", "jail">> \o JailedArgs(nj_in.program),
                     !.log = Append(@, "command"),
                     !.pc = "stdio"]
    /\ UNCHANGED <<nj_in, nj_child, nj_host, nj_scratch, nat, wzVars>>
    /\ UNCHANGED <<artVars, bnVars, rbVars, cpVars, tnVars, oaVars, jcVars, ppVars>>

JailedStdio ==
    /\ jl.pc = "stdio"
    /\ jl' = [jl EXCEPT
                !.stdin_cfg = IF nj_in.stdin.kind = "Ignore" THEN "null" ELSE "piped",
                !.log = Append(@, "stdio"),
                !.pc = "spawn"]
    /\ UNCHANGED <<nj_in, nj_child, nj_host, nj_scratch, nat, wzVars>>
    /\ UNCHANGED <<artVars, bnVars, rbVars, cpVars, tnVars, oaVars, jcVars, ppVars>>

\* let mut process = command.spawn()?;  The child behaves as the child of
\* the native run did, when that run had one.
JailedSpawn(ok, child) ==
    /\ jl.pc = "spawn"
    /\ nj_child.chosen => child = nj_child.is
    /\ IF ok
       THEN /\ jl' = [jl EXCEPT !.spawned = TRUE, !.log = Append(@, "spawn"),
                                !.pc = "timer_start"]
            /\ nj_child' = [chosen |-> TRUE, is |-> child]
       ELSE /\ jl' = [jl EXCEPT !.ret = RunErr("IOError"), !.pc = "done"]
            /\ UNCHANGED nj_child
    /\ UNCHANGED <<nj_in, nj_host, nj_scratch, nat, wzVars>>
    /\ UNCHANGED <<artVars, bnVars, rbVars, cpVars, tnVars, oaVars, jcVars, ppVars>>

JailedTimerStart ==
    /\ jl.pc = "timer_start"
    /\ jl' = [jl EXCEPT !.timer = "running", !.log = Append(@, "timer_start"),
                        !.pc = "write_stdin"]
    /\ UNCHANGED <<nj_in, nj_child, nj_host, nj_scratch, nat, wzVars>>
    /\ UNCHANGED <<artVars, bnVars, rbVars, cpVars, tnVars, oaVars, jcVars, ppVars>>

JailedWriteStdin ==
    /\ jl.pc = "write_stdin"
    /\ LET in == nj_in.stdin
           bytes == CASE in.kind = "String" -> in.text
                      [] in.kind = "File" -> nj_in.file.content
                      [] OTHER -> <<>>
           fails == \/ in.kind = "File" /\ ~nj_in.file.exists
                    \/ in.kind # "Ignore" /\ ~PipeAccepts(nj_child.is, bytes)
       IN IF fails
          THEN jl' = [jl EXCEPT !.ret = RunErr("IOError"), !.pc = "done"]
          ELSE jl' = [jl EXCEPT !.delivered = bytes,
                                !.log = Append(@, "write_stdin"),
                                !.pc = "wait"]
    /\ UNCHANGED <<nj_in, nj_child, nj_host, nj_scratch, nat, wzVars>>
    /\ UNCHANGED <<artVars, bnVars, rbVars, cpVars, tnVars, oaVars, jcVars, ppVars>>

JailedWait ==
    /\ jl.pc = "wait"
    /\ jl' = [jl EXCEPT !.waited = TRUE, !.output = nj_child.is,
                        !.log = Append(@, "wait"), !.pc = "timer_stop"]
    /\ UNCHANGED <<nj_in, nj_child, nj_host, nj_scratch, nat, wzVars>>
    /\ UNCHANGED <<artVars, bnVars, rbVars, cpVars, tnVars, oaVars, jcVars, ppVars>>

JailedTimerStop ==
    /\ jl.pc = "timer_stop"
    /\ jl' = [jl EXCEPT !.timer = "stopped", !.log = Append(@, "timer_stop"),
                        !.pc = "return"]
    /\ UNCHANGED <<nj_in, nj_child, nj_host, nj_scratch, nat, wzVars>>
    /\ UNCHANGED <<artVars, bnVars, rbVars, cpVars, tnVars, oaVars, jcVars, ppVars>>

JailedReturn ==
    /\ jl.pc = "return"
    /\ LET out == jl.output IN
       IF FromUtf8(out.stdout).ok /\ FromUtf8(out.stderr).ok
       THEN jl' = [jl EXCEPT
                     !.ret = [kind |-> "Ok", err |-> "",
                              stdout |-> CaptureStream(FromUtf8(out.stdout).val),
                              stderr |-> CaptureStream(FromUtf8(out.stderr).val),
                              exit_code |-> UnwrapOr(out.code, 0)],
                     !.log = Append(@, "return"),
                     !.pc = "done"]
       ELSE jl' = [jl EXCEPT !.ret = RunPanic, !.pc = "done"]
    /\ UNCHANGED <<nj_in, nj_child, nj_host, nj_scratch, nat, wzVars>>
    /\ UNCHANGED <<artVars, bnVars, rbVars, cpVars, tnVars, oaVars, jcVars, ppVars>>

(***************************************************************************)
(* WasmRuntime::run: runtimes/wasm_runtime.rs.                             *)
(***************************************************************************)
\* The guest: the operations its _start executes.  "create" tries to
\* create test.txt and carries on when that fails, "create_unwrap" traps
\* when it fails (File::create("test.txt").unwrap()), "sandbox_create"
\* creates /sandbox/test.txt and traps when that fails, "exit" leaves the
\* program through proc_exit instead of returning from _start.
GuestOps == {"nop", "create", "create_unwrap", "sandbox_create", "exit"}

\* What the guest wrote to its stdout and stderr by the time it returned.
GuestOutputs == [stdout : ChildStdouts, stderr : ChildStderrs]
NoOutput == [stdout |-> <<>>, stderr |-> <<>>]

\* ExecutionResult { stdout: Some(stdout), stderr: Some(stderr), .. }
AbsentWhenEmpty(s) == IF s = <<>> THEN None ELSE Some(s)
PresentStream(s) == Some(s)

\* The wasmparser Operator the metering middleware sees for an operation.
OperatorOf(op) == IF op = "nop" THEN "Nop" ELSE "Call"

\* WasmConfig.cost_function: None, or a closure; "call2" charges 2 for a
\* Call and nothing for other operators.
CostFunctions == {None, Some("call2")}

\* The closure applied to an operator.
ApplyCost(f, operator) == IF f = "call2" /\ operator # "Call" THEN 0 ELSE 2

\* cost_function.unwrap_or_else(|| Arc::new(|_| -> u64 { 1 }))
CostOf(cost_function, operator) ==
    IF cost_function = None THEN 1 ELSE ApplyCost(cost_function[1], operator)

\* if config.gas != 0: the metering middleware is pushed.
NeverMetered(gas) == FALSE
MeteringInstalled(gas) == gas # 0

\* WasmAdditionalData.preopen_dir
PreopenDirs == {None, Some("/srv/box")}

\* tmp_fs.mount("/sandbox".into(), &host_fs, dir.clone())
MountNothing(preopen_dir) == {}
SandboxMounts(preopen_dir) ==
    IF preopen_dir = None THEN {}
    ELSE {[guest |-> "/sandbox", host |-> preopen_dir[1]]}

\* WasmConfig.memory_limit values the run sees: 0 (no cap) or a cap.
WzMemoryLimits == {Usize(0), Usize(1)}

NoWzInputs == [gas |-> 0, cost_function |-> None, memory_limit |-> Usize(0),
               stdin |-> Ignore, file |-> NoFile, preopen_dir |-> None]
NoWzRet == [kind |-> "none", err |-> "", stdout |-> None, stderr |-> None,
            exit_code |-> 0]
WzErr(e) == [NoWzRet EXCEPT !.kind = "Err", !.err = e]
NoWz == [pc |-> "idle", metering |-> FALSE, cost |-> None, consulted |-> FALSE,
         tunables |-> FALSE, stdin_pipe |-> <<>>, mounts |-> {},
         trace |-> <<>>, remaining |-> 0, exhausted |-> FALSE, trapped |-> FALSE,
         timer |-> "off", cleaned |-> FALSE, written |-> NoOutput, log |-> <<>>,
         ret |-> NoWzRet]

WzInit ==
    /\ wz_in = NoWzInputs
    /\ wz = NoWz
    /\ wz_host = {}

\* A caller runs a WASI artifact.
WasmCall(gas, cost_function, memory_limit, stdin, file, preopen_dir) ==
    /\ nat.pc = "idle" /\ jl.pc = "idle" /\ wz.pc = "idle"
    /\ stdin.kind # "File" => file = NoFile
    /\ wz_in' = [gas |-> gas, cost_function |-> cost_function,
                 memory_limit |-> memory_limit, stdin |-> stdin, file |-> file,
                 preopen_dir |-> preopen_dir]
    /\ wz' = [wz EXCEPT !.pc = "engine"]
    /\ UNCHANGED <<wz_host, njVars>>
    /\ UNCHANGED <<artVars, bnVars, rbVars, cpVars, tnVars, oaVars, jcVars, ppVars>>

\* let compiler_config = if config.gas != 0 { .. push_middleware(metering) }
\* else { config.compiler.get_compiler() };  EngineBuilder::new(..)
WzEngine ==
    /\ wz.pc = "engine"
    /\ wz' = [wz EXCEPT
                !.metering = MeteringInstalled(wz_in.gas),
                !.cost = IF MeteringInstalled(wz_in.gas)
                         THEN wz_in.cost_function ELSE None,
                !.remaining = wz_in.gas,
                !.log = Append(@, "engine"),
                !.pc = "tunables"]
    /\ UNCHANGED <<wz_in, wz_host, njVars>>
    /\ UNCHANGED <<artVars, bnVars, rbVars, cpVars, tnVars, oaVars, jcVars, ppVars>>

\* if config.memory_limit != 0 { engine.set_tunables(..) }
WzTunables ==
    /\ wz.pc = "tunables"
    /\ wz' = [wz EXCEPT
                !.tunables = IsNonZero(wz_in.memory_limit),
                !.log = IF IsNonZero(wz_in.memory_limit)
                        THEN Append(@, "tunables") ELSE @,
                !.pc = "load"]
    /\ UNCHANGED <<wz_in, wz_host, njVars>>
    /\ UNCHANGED <<artVars, bnVars, rbVars, cpVars, tnVars, oaVars, jcVars, ppVars>>

\* Store::new(engine); Module::from_file(&store, executable)?  The
\* middleware meters the module's operators as the module is compiled.
WzLoad(ok) ==
    /\ wz.pc = "load"
    /\ IF ok
       THEN wz' = [wz EXCEPT !.consulted = wz.metering,
                             !.log = Append(@, "store") \o <<"module">>,
                             !.pc = "stdin"]
       ELSE wz' = [wz EXCEPT !.ret = WzErr("IOCompileError"),
                             !.log = Append(@, "store"),
                             !.pc = "done"]
    /\ UNCHANGED <<wz_in, wz_host, njVars>>
    /\ UNCHANGED <<artVars, bnVars, rbVars, cpVars, tnVars, oaVars, jcVars, ppVars>>

\* match &config.stdin: String(input) => write_all(input.as_bytes()) and
\* write_all(b"\n"); File(path) => the bytes read from the file;
\* Ignore => nothing.
LiteralInput(stdin, file) ==
    CASE stdin.kind = "String" -> stdin.text
      [] stdin.kind = "File" -> file.content
      [] OTHER -> <<>>
PipeInput(stdin, file) ==
    CASE stdin.kind = "String" -> stdin.text \o <<"nl">>
      [] stdin.kind = "File" -> file.content
      [] OTHER -> <<>>

\* Pipe::channel() three times, then match &config.stdin { .. }
WzStdin ==
    /\ wz.pc = "stdin"
    /\ LET in == wz_in.stdin IN
       IF in.kind = "File" /\ ~wz_in.file.exists
       THEN wz' = [wz EXCEPT !.ret = WzErr("IOError"), !.log = Append(@, "pipes"),
                             !.pc = "done"]
       ELSE wz' = [wz EXCEPT
                     !.stdin_pipe = PipeInput(in, wz_in.file),
                     !.log = Append(@, "pipes") \o <<"stdin">>,
                     !.pc = "env"]
    /\ UNCHANGED <<wz_in, wz_host, njVars>>
    /\ UNCHANGED <<artVars, bnVars, rbVars, cpVars, tnVars, oaVars, jcVars, ppVars>>

\* WasiEnv::builder("wasi_program")..; if let Some(dir) = preopen_dir
\* { tmp_fs.mount(..)?; sandbox_fs(tmp_fs) }; finalize(&mut store)?
WzEnv(ok) ==
    /\ wz.pc = "env"
    /\ wz_in.preopen_dir = None => ok
    /\ IF ok
       THEN wz' = [wz EXCEPT !.mounts = SandboxMounts(wz_in.preopen_dir),
                             !.log = Append(@, "env"),
                             !.pc = "instance"]
       ELSE wz' = [wz EXCEPT !.ret = WzErr("FsError"), !.pc = "done"]
    /\ UNCHANGED <<wz_in, wz_host, njVars>>
    /\ UNCHANGED <<artVars, bnVars, rbVars, cpVars, tnVars, oaVars, jcVars, ppVars>>

\* import_object(..)?; Instance::new(..)?; wasi_env.initialize(..)?
WzInstance(ok) ==
    /\ wz.pc = "instance"
    /\ IF ok
       THEN wz' = [wz EXCEPT !.log = Append(@, "instance"), !.pc = "get_start"]
       ELSE wz' = [wz EXCEPT !.ret = WzErr("InstantiationError"), !.pc = "done"]
    /\ UNCHANGED <<wz_in, wz_host, njVars>>
    /\ UNCHANGED <<artVars, bnVars, rbVars, cpVars, tnVars, oaVars, jcVars, ppVars>>

\* instance.exports.get_function("_start")?
WzGetStart(ok) ==
    /\ wz.pc = "get_start"
    /\ IF ok
       THEN wz' = [wz EXCEPT !.log = Append(@, "get_start"), !.pc = "timer_start"]
       ELSE wz' = [wz EXCEPT !.ret = WzErr("ExportError"), !.pc = "done"]
    /\ UNCHANGED <<wz_in, wz_host, njVars>>
    /\ UNCHANGED <<artVars, bnVars, rbVars, cpVars, tnVars, oaVars, jcVars, ppVars>>

\* let start_time = std::time::Instant::now();
WzTimerNotStarted ==
    /\ wz.pc = "timer_start"
    /\ wz' = [wz EXCEPT !.pc = "call"]
    /\ UNCHANGED <<wz_in, wz_host, njVars>>
    /\ UNCHANGED <<artVars, bnVars, rbVars, cpVars, tnVars, oaVars, jcVars, ppVars>>
WzTimerStart ==
    /\ wz.pc = "timer_start"
    /\ wz' = [wz EXCEPT !.timer = "running", !.log = Append(@, "timer_start"),
                        !.pc = "call"]
    /\ UNCHANGED <<wz_in, wz_host, njVars>>
    /\ UNCHANGED <<artVars, bnVars, rbVars, cpVars, tnVars, oaVars, jcVars, ppVars>>

\* start.call(&mut store, &[])?  one operation of the guest.  With
\* metering the operation is charged first and traps when the remaining
\* points do not cover it.  A trap and proc_exit both end the call with
\* an Err.  A creation outside a mounted /sandbox never
\* reaches the host: it fails without a mount, and with one the in-memory
\* root may take it (inmem).
WzGuestStep(op, inmem) ==
    /\ wz.pc = "call"
    /\ Len(wz.trace) < MaxOps
    /\ LET cost == CostOf(wz.cost, OperatorOf(op))
           mounted == wz.mounts # {}
           fails == CASE op = "sandbox_create" -> ~mounted
                      [] op \in {"create", "create_unwrap"} -> ~(mounted /\ inmem)
                      [] op = "exit" -> TRUE
                      [] OTHER -> FALSE
       IN IF wz.metering /\ wz.remaining < cost
          THEN /\ wz' = [wz EXCEPT !.trace = Append(@, op), !.exhausted = TRUE,
                                   !.ret = WzErr("RuntimeError"), !.pc = "done"]
               /\ UNCHANGED wz_host
          ELSE /\ wz' = [wz EXCEPT
                           !.trace = Append(@, op),
                           !.remaining = IF wz.metering THEN @ - cost ELSE @,
                           !.trapped = fails /\ op # "create",
                           !.ret = IF fails /\ op # "create"
                                   THEN WzErr("RuntimeError") ELSE @,
                           !.pc = IF fails /\ op # "create" THEN "done" ELSE @]
               /\ wz_host' = IF op = "sandbox_create" /\ mounted
                             THEN wz_host \cup
                                  {[dir |-> m.host, name |-> "test.txt"] : m \in wz.mounts}
                             ELSE wz_host
    /\ UNCHANGED <<wz_in, njVars>>
    /\ UNCHANGED <<artVars, bnVars, rbVars, cpVars, tnVars, oaVars, jcVars, ppVars>>

\* _start returns: start.call(..) is Ok.
WzGuestReturn ==
    /\ wz.pc = "call"
    /\ wz' = [wz EXCEPT !.log = Append(@, "call"), !.pc = "timer_stop"]
    /\ UNCHANGED <<wz_in, wz_host, njVars>>
    /\ UNCHANGED <<artVars, bnVars, rbVars, cpVars, tnVars, oaVars, jcVars, ppVars>>

\* let time_taken = start_time.elapsed();
WzTimerStop ==
    /\ wz.pc = "timer_stop"
    /\ wz' = [wz EXCEPT !.timer = "stopped", !.log = Append(@, "timer_stop"),
                        !.pc = "cleanup"]
    /\ UNCHANGED <<wz_in, wz_host, njVars>>
    /\ UNCHANGED <<artVars, bnVars, rbVars, cpVars, tnVars, oaVars, jcVars, ppVars>>

\* wasi_env.cleanup(&mut store, None);
WzCleanup ==
    /\ wz.pc = "cleanup"
    /\ wz' = [wz EXCEPT !.cleaned = TRUE, !.log = Append(@, "cleanup"),
                        !.pc = "drain"]
    /\ UNCHANGED <<wz_in, wz_host, njVars>>
    /\ UNCHANGED <<artVars, bnVars, rbVars, cpVars, tnVars, oaVars, jcVars, ppVars>>

\* stdout_rx.read_to_string(..)?; stderr_rx.read_to_string(..)?;
\* Ok(ExecutionResult { stdout: Some(..), stderr: Some(..), exit_code: 0 })
\* The pipes hold what the guest wrote; read_to_string fails on bytes that
\* are not UTF-8.
WzReturn(out) ==
    /\ wz.pc = "drain"
    /\ LET o == ReadToString(out.stdout)
           e == ReadToString(out.stderr)
       IN IF o.ok /\ e.ok
          THEN wz' = [wz EXCEPT
                        !.written = out,
                        !.ret = [kind |-> "Ok", err |-> "",
                                 stdout |-> PresentStream(o.val),
                                 stderr |-> PresentStream(e.val),
                                 exit_code |-> 0],
                        !.log = Append(@, "drain"),
                        !.pc = "done"]
          ELSE wz' = [wz EXCEPT !.written = out, !.ret = WzErr("IOError"),
                                !.log = Append(@, "drain"), !.pc = "done"]
    /\ UNCHANGED <<wz_in, wz_host, njVars>>
    /\ UNCHANGED <<artVars, bnVars, rbVars, cpVars, tnVars, oaVars, jcVars, ppVars>>

NextRun ==
    \/ \E program \in SidePrograms, onpath \in BOOLEAN, stdin \in InputDatas,
          file \in FileStates : NativeCall(program, onpath, stdin, file)
    \/ NativeCommand
    \/ NativeStdio
    \/ \E ok \in BOOLEAN, child \in Children : NativeSpawn(ok, child)
    \/ NativeTimerStart
    \/ NativeWriteStdin
    \/ NativeWait
    \/ NativeTimerStop
    \/ NativeReturn
    \/ JailedCall
    \/ \E host \in Hosts : JailedCheckRoot(host)
    \/ \E ok \in BOOLEAN : JailedScript(ok)
    \/ JailedCommand
    \/ JailedStdio
    \/ \E ok \in BOOLEAN, child \in Children : JailedSpawn(ok, child)
    \/ JailedTimerStart
    \/ JailedWriteStdin
    \/ JailedWait
    \/ JailedTimerStop
    \/ JailedReturn
    \/ \E gas \in 0..MaxGas, cost_function \in CostFunctions,
          memory_limit \in WzMemoryLimits, stdin \in InputDatas,
          file \in FileStates, preopen_dir \in PreopenDirs :
          WasmCall(gas, cost_function, memory_limit, stdin, file, preopen_dir)
    \/ WzEngine
    \/ WzTunables
    \/ \E ok \in BOOLEAN : WzLoad(ok)
    \/ WzStdin
    \/ \E ok \in BOOLEAN : WzEnv(ok)
    \/ \E ok \in BOOLEAN : WzInstance(ok)
    \/ \E ok \in BOOLEAN : WzGetStart(ok)
    \/ WzTimerStart
    \/ \E op \in GuestOps, inmem \in BOOLEAN : WzGuestStep(op, inmem)
    \/ WzGuestReturn
    \/ WzTimerStop
    \/ WzCleanup
    \/ \E out \in GuestOutputs : WzReturn(out)

RunInit == NjInit /\ WzInit

(***************************************************************************)
(* The optimisation level and the arguments built from a compiler config   *)
(* (common/compiler.rs, compilers/rust_compiler.rs, cpp_compiler.rs).      *)
(* A string is the sequence of its characters.                             *)
(***************************************************************************)
\* enum OptLevel { None, Speed, Size, O1, O2, O3, Custom(String) }
FixedOptLevels == {"None", "Speed", "Size", "O1", "O2", "O3"}
CustomChars == {"3", "z"}
OptLevels ==
    {[kind |-> k, s |-> <<>>] : k \in FixedOptLevels} \cup
    {[kind |-> "Custom", s |-> s] : s \in SeqsUpTo(CustomChars, MaxCustomLen)}

\* OptLevel::as_stanard_opt_char
AsStandardOptChar(level) ==
    CASE level.kind = "None" -> <<"0">>
      [] level.kind = "Speed" -> <<"f", "a", "s", "t">>
      [] level.kind = "Size" -> <<"z">>
      [] level.kind = "O1" -> <<"1">>
      [] level.kind = "O2" -> <<"2">>
      [] level.kind = "O3" -> <<"3">>
      [] level.kind = "Custom" -> level.s

\* format!("{}", n) of a u32: its decimal digits, most significant first.
DecimalDigit(d) == <<"0", "1", "2", "3", "4", "5", "6", "7", "8", "9">>[d + 1]
RECURSIVE FormatU32(_)
FormatU32(n) ==
    IF n < 10 THEN <<DecimalDigit(n)>>
    ELSE Append(FormatU32(n \div 10), DecimalDigit(n % 10))

\* RustCompilerConfig { opt_level, codegen_units }
CodegenUnits == {0, 1, 16}
RustConfigs == [opt_level : OptLevels, codegen_units : CodegenUnits]
\* CppCompilerConfig { opt_level, additional_flags }
ExtraFlags == {<<"-", "g">>, <<"-", "O", "2">>}
CppConfigs == [opt_level : OptLevels,
               additional_flags : SeqsUpTo(ExtraFlags, MaxFlags)]

\* impl IntoArgs for RustCompilerConfig
RustIntoArgsAlways(cfg) ==
    <<<<"-", "C">>,
      <<"o", "p", "t", "-", "l", "e", "v", "e", "l", "=">> \o
          AsStandardOptChar(cfg.opt_level)>> \o
    <<<<"-", "C">>,
      <<"c", "o", "d", "e", "g", "e", "n", "-", "u", "n", "i", "t", "s", "=">> \o
          FormatU32(cfg.codegen_units)>>
RustIntoArgs(cfg) ==
    LET opt == IF cfg.opt_level.kind # "None"
               THEN <<<<"-", "C">>,
                      <<"o", "p", "t", "-", "l", "e", "v", "e", "l", "=">> \o
                          AsStandardOptChar(cfg.opt_level)>>
               ELSE <<>>
    IN opt \o
       <<<<"-", "C">>,
         <<"c", "o", "d", "e", "g", "e", "n", "-", "u", "n", "i", "t", "s", "=">> \o
             FormatU32(cfg.codegen_units)>>

\* impl IntoArgs for CppCompilerConfig
CppIntoArgs(cfg) ==
    LET opt == IF cfg.opt_level.kind # "None"
               THEN <<<<"-", "O">> \o AsStandardOptChar(cfg.opt_level)>>
               ELSE <<>>
    IN opt \o cfg.additional_flags

NoOa == [pc |-> "none", lang |-> "", opt_level |-> [kind |-> "None", s |-> <<>>],
         codegen_units |-> 0, additional_flags |-> <<>>, args |-> <<>>]
OaInit == oa = NoOa

\* A RustCompilerConfig is built.
OaRustConfig(cfg) ==
    /\ oa.pc = "none"
    /\ oa' = [NoOa EXCEPT !.pc = "config", !.lang = "rust",
                          !.opt_level = cfg.opt_level,
                          !.codegen_units = cfg.codegen_units]
    /\ UNCHANGED <<artVars, bnVars, rbVars, cpVars, tnVars, runVars, jcVars, ppVars>>

\* A CppCompilerConfig is built.
OaCppConfig(cfg) ==
    /\ oa.pc = "none"
    /\ oa' = [NoOa EXCEPT !.pc = "config", !.lang = "cpp",
                          !.opt_level = cfg.opt_level,
                          !.additional_flags = cfg.additional_flags]
    /\ UNCHANGED <<artVars, bnVars, rbVars, cpVars, tnVars, runVars, jcVars, ppVars>>

\* config.into_args() of the Rust adapter
OaRustIntoArgs ==
    /\ oa.pc = "config"
    /\ oa.lang = "rust"
    /\ oa' = [oa EXCEPT !.pc = "args",
                        !.args = RustIntoArgs([opt_level |-> oa.opt_level,
                                               codegen_units |-> oa.codegen_units])]
    /\ UNCHANGED <<artVars, bnVars, rbVars, cpVars, tnVars, runVars, jcVars, ppVars>>

\* config.into_args() of the C++ adapter
OaCppIntoArgs ==
    /\ oa.pc = "config"
    /\ oa.lang = "cpp"
    /\ oa' = [oa EXCEPT !.pc = "args",
                        !.args = CppIntoArgs([opt_level |-> oa.opt_level,
                                              additional_flags |-> oa.additional_flags])]
    /\ UNCHANGED <<artVars, bnVars, rbVars, cpVars, tnVars, runVars, jcVars, ppVars>>

NextOptArgs ==
    \/ \E cfg \in RustConfigs : OaRustConfig(cfg)
    \/ \E cfg \in CppConfigs : OaCppConfig(cfg)
    \/ OaRustIntoArgs
    \/ OaCppIntoArgs

(***************************************************************************)
(* Compiling for the jailed runtime with a compiler that targets native    *)
(* (runtimes/jailed_runtime.rs, impl<C: Compiler<NativeRuntime>>           *)
(* Compiler<JailedRuntime> for C).                                         *)
(***************************************************************************)
\* The configs of the compiler C, and what C::compile may give: an
\* artifact of one of the adapters with its TempDir in the handle, an
\* artifact of a foreign compiler whose handle is empty, or an error.
JcConfigs == {"default", "optimized"}
NativeLangs == {"rust", "cpp", "python", "js"}
NativeOutcomes ==
    {[kind |-> "Ok", executable |-> ExecutableName(l, "native"),
      program |-> ProgramOf(l, "native"), handle |-> h, err |-> ""] :
        l \in NativeLangs, h \in {"Some", "None"}} \cup
    {[kind |-> "Err", executable |-> "", program |-> "", handle |-> "None",
      err |-> e] : e \in {"IoError", "CompilationFailed", "ProgramNotInstalled"}}

NoJcArt == [executable |-> "", program |-> "", handle |-> "None"]
NoJc == [pc |-> "none", config |-> "", got_config |-> "", native |-> NoJcArt,
         jailed |-> NoJcArt, temp_dir |-> FALSE, live |-> {}, cloned |-> FALSE,
         dir |-> "none", dir_at_return |-> "none", removed_by |-> <<>>,
         panicked |-> FALSE, ret |-> [kind |-> "none", err |-> ""]]
JcInit == jc = NoJc

\* Option::take on the native artifact's handle / the handle left alone.
HandleKept(h) == h
HandleAfterTake(h) == "None"

\* Drop for CompiledCode: clean_up removes the directory when the handle
\* still holds the TempDir.
DropHandle(art, who, dir, by) ==
    IF art.handle = "Some"
    THEN [dir |-> "deleted", by |-> Append(by, who)]
    ELSE [dir |-> dir, by |-> by]

\* let native_code = C::compile(self, code, config)?;
JcCompileNative(config, out) ==
    /\ jc.pc = "none"
    /\ IF out.kind = "Err"
       THEN jc' = [jc EXCEPT !.config = config, !.got_config = config,
                             !.ret = [kind |-> "Err", err |-> out.err],
                             !.pc = "done"]
       ELSE jc' = [jc EXCEPT
                     !.config = config, !.got_config = config,
                     !.native = [executable |-> out.executable,
                                 program |-> out.program, handle |-> out.handle],
                     !.dir = IF out.handle = "Some" THEN "exists" ELSE "deleted",
                     !.live = {"native"},
                     !.pc = "take"]
    /\ UNCHANGED <<artVars, bnVars, rbVars, cpVars, tnVars, runVars, oaVars, ppVars>>

\* let temp_dir = native_code.temp_dir_handle.lock().unwrap().take().unwrap();
\* unwrap panics on an empty handle; native_code is dropped on the way out.
JcTake ==
    /\ jc.pc = "take"
    /\ IF jc.native.handle = "None"
       THEN jc' = [jc EXCEPT !.panicked = TRUE, !.live = {}, !.pc = "done"]
       ELSE jc' = [jc EXCEPT !.native.handle = HandleAfterTake(@),
                             !.temp_dir = TRUE, !.pc = "wrap"]
    /\ UNCHANGED <<artVars, bnVars, rbVars, cpVars, tnVars, runVars, oaVars, ppVars>>

\* let temp_dir_handle = Arc::new(Mutex::new(Some(temp_dir)));
\* CompiledCode { executable: native_code.executable.clone(), temp_dir_handle,
\*                additional_data: native_code.additional_data.clone(), .. }
JcWrap ==
    /\ jc.pc = "wrap"
    /\ jc' = [jc EXCEPT !.jailed = [executable |-> jc.native.executable,
                                    program |-> jc.native.program,
                                    handle |-> "Some"],
                        !.temp_dir = FALSE,
                        !.live = @ \cup {"jailed"},
                        !.pc = "return"]
    /\ UNCHANGED <<artVars, bnVars, rbVars, cpVars, tnVars, runVars, oaVars, ppVars>>

\* Ok(..): compile returns and native_code goes out of scope.
JcReturn ==
    /\ jc.pc = "return"
    /\ LET d == DropHandle(jc.native, "native", jc.dir, jc.removed_by)
       IN jc' = [jc EXCEPT !.native.handle = "None",
                           !.live = @ \ {"native"},
                           !.dir = d.dir, !.removed_by = d.by,
                           !.dir_at_return = d.dir,
                           !.ret = [kind |-> "Ok", err |-> ""],
                           !.pc = "done"]
    /\ UNCHANGED <<artVars, bnVars, rbVars, cpVars, tnVars, runVars, oaVars, ppVars>>

\* The caller clones the jailed artifact (derive Clone): the clone shares
\* the handle.
JcClone ==
    /\ jc.pc = "done"
    /\ "jailed" \in jc.live
    /\ ~jc.cloned
    /\ jc' = [jc EXCEPT !.live = @ \cup {"clone"}, !.cloned = TRUE]
    /\ UNCHANGED <<artVars, bnVars, rbVars, cpVars, tnVars, runVars, oaVars, ppVars>>

\* The caller drops the jailed artifact or its clone: clean_up().unwrap().
\* TempDir::close may be refused by the host, and the unwrap panics.
JcDrop(who, ok) ==
    /\ jc.pc = "done"
    /\ who \in jc.live
    /\ IF jc.jailed.handle = "Some" /\ ~ok
       THEN jc' = [jc EXCEPT !.jailed.handle = "None", !.live = @ \ {who},
                             !.panicked = TRUE]
       ELSE LET d == DropHandle(jc.jailed, who, jc.dir, jc.removed_by)
            IN jc' = [jc EXCEPT !.jailed.handle = "None", !.live = @ \ {who},
                                !.dir = d.dir, !.removed_by = d.by]
    /\ UNCHANGED <<artVars, bnVars, rbVars, cpVars, tnVars, runVars, oaVars, ppVars>>

\* The caller calls clean_up on the jailed artifact or its clone.
JcCleanUp(who, ok) ==
    /\ jc.pc = "done"
    /\ who \in jc.live
    /\ IF jc.jailed.handle = "Some" /\ ~ok
       THEN jc' = [jc EXCEPT !.jailed.handle = "None"]
       ELSE LET d == DropHandle(jc.jailed, who, jc.dir, jc.removed_by)
            IN jc' = [jc EXCEPT !.jailed.handle = "None",
                                !.dir = d.dir, !.removed_by = d.by]
    /\ UNCHANGED <<artVars, bnVars, rbVars, cpVars, tnVars, runVars, oaVars, ppVars>>

NextJailedCompile ==
    \/ \E config \in JcConfigs, out \in NativeOutcomes : JcCompileNative(config, out)
    \/ JcTake
    \/ JcWrap
    \/ JcReturn
    \/ JcClone
    \/ \E who \in {"jailed", "clone"}, ok \in BOOLEAN : JcDrop(who, ok)
    \/ \E who \in {"jailed", "clone"}, ok \in BOOLEAN : JcCleanUp(who, ok)

(***************************************************************************)
(* The parent and the child of a native or jailed run, and the two pipes   *)
(* between them (runtimes/native_runtime.rs, jailed_runtime.rs: spawn,     *)
(* write_all or io::copy into the child's stdin, wait_with_output).  The   *)
(* run writes all of stdin, closes it, and only then reads the child's     *)
(* output; an OS pipe holds PipeCap bytes, a write to a full pipe and a    *)
(* read from an empty open pipe block.                                     *)
(***************************************************************************)
\* The child's program: it reads a byte of its stdin or writes a byte to
\* its stdout, one after the other, and exits.
ChildPrograms == SeqsUpTo({"read", "write"}, MaxProg)

NoPp == [pc |-> "none", remaining |-> 0, stdin_fill |-> 0, stdin_closed |-> FALSE,
         stdout_fill |-> 0, collected |-> 0, program |-> <<>>, at |-> 1,
         exited |-> FALSE, ret |-> "none"]
PpInit == pp = NoPp

\* A write of one byte to a pipe: possible while the pipe has room.
PipeHasRoom(fill) == fill < PipeCap

\* process.spawn()? with Stdio::piped() for stdin, stdout and stderr; the
\* input has n bytes.
PpSpawn(n, program) ==
    /\ pp.pc = "none"
    /\ pp' = [NoPp EXCEPT !.pc = "write", !.remaining = n, !.program = program]
    /\ UNCHANGED <<artVars, bnVars, rbVars, cpVars, tnVars, runVars, oaVars, jcVars>>

\* stdin.write_all(data.as_bytes())? / io::copy(&mut file, &mut stdin)?:
\* the next byte goes into the pipe when there is room; the write fails
\* when the child is gone.
PpParentWrite ==
    /\ pp.pc = "write"
    /\ pp.remaining > 0
    /\ IF pp.exited
       THEN pp' = [pp EXCEPT !.ret = "Err", !.pc = "done"]
       ELSE /\ PipeHasRoom(pp.stdin_fill)
            /\ pp' = [pp EXCEPT !.stdin_fill = @ + 1, !.remaining = @ - 1]
    /\ UNCHANGED <<artVars, bnVars, rbVars, cpVars, tnVars, runVars, oaVars, jcVars>>

\* All of the input is written: stdin goes out of scope and is closed.
PpParentClose ==
    /\ pp.pc = "write"
    /\ pp.remaining = 0
    /\ pp' = [pp EXCEPT !.stdin_closed = TRUE, !.pc = "read"]
    /\ UNCHANGED <<artVars, bnVars, rbVars, cpVars, tnVars, runVars, oaVars, jcVars>>

\* process.wait_with_output()?: a byte of the child's output is read.
PpParentRead ==
    /\ pp.pc = "read"
    /\ pp.stdout_fill > 0
    /\ pp' = [pp EXCEPT !.stdout_fill = @ - 1, !.collected = @ + 1]
    /\ UNCHANGED <<artVars, bnVars, rbVars, cpVars, tnVars, runVars, oaVars, jcVars>>

\* process.wait_with_output()?: end of file on the child's output, the
\* child is waited for and run returns.
PpParentWait ==
    /\ pp.pc = "read"
    /\ pp.stdout_fill = 0
    /\ pp.exited
    /\ pp' = [pp EXCEPT !.ret = "Ok", !.pc = "done"]
    /\ UNCHANGED <<artVars, bnVars, rbVars, cpVars, tnVars, runVars, oaVars, jcVars>>

\* The child reads a byte of its stdin: one from the pipe, or end of file
\* when the pipe is empty and the parent has closed it.
PpChildRead ==
    /\ pp.pc \in {"write", "read"}
    /\ ~pp.exited
    /\ pp.at <= Len(pp.program)
    /\ pp.program[pp.at] = "read"
    /\ \/ /\ pp.stdin_fill > 0
          /\ pp' = [pp EXCEPT !.stdin_fill = @ - 1, !.at = @ + 1]
       \/ /\ pp.stdin_fill = 0
          /\ pp.stdin_closed
          /\ pp' = [pp EXCEPT !.at = @ + 1]
    /\ UNCHANGED <<artVars, bnVars, rbVars, cpVars, tnVars, runVars, oaVars, jcVars>>

\* The child writes a byte to its stdout when the pipe has room.
PpChildWrite ==
    /\ pp.pc \in {"write", "read"}
    /\ ~pp.exited
    /\ pp.at <= Len(pp.program)
    /\ pp.program[pp.at] = "write"
    /\ PipeHasRoom(pp.stdout_fill)
    /\ pp' = [pp EXCEPT !.stdout_fill = @ + 1, !.at = @ + 1]
    /\ UNCHANGED <<artVars, bnVars, rbVars, cpVars, tnVars, runVars, oaVars, jcVars>>

\* The child reaches the end of its program and exits; its ends of the
\* pipes are closed.
PpChildExit ==
    /\ pp.pc \in {"write", "read"}
    /\ ~pp.exited
    /\ pp.at > Len(pp.program)
    /\ pp' = [pp EXCEPT !.exited = TRUE]
    /\ UNCHANGED <<artVars, bnVars, rbVars, cpVars, tnVars, runVars, oaVars, jcVars>>

NextPipes ==
    \/ \E n \in 0..MaxIn, program \in ChildPrograms : PpSpawn(n, program)
    \/ PpParentWrite
    \/ PpParentClose
    \/ PpParentRead
    \/ PpParentWait
    \/ PpChildRead
    \/ PpChildWrite
    \/ PpChildExit

(***************************************************************************)
(* Specifications.                                                         *)
(***************************************************************************)
InitArtifact == ArtInit /\ BnInit /\ RbInit /\ CpInit /\ TnInit /\ RunInit /\ OaInit /\ JcInit /\ PpInit
SpecArtifact == InitArtifact /\ [][NextArtifact]_vars

InitBundle == ArtInit /\ BnInit /\ RbInit /\ CpInit /\ TnInit /\ RunInit /\ OaInit /\ JcInit /\ PpInit
SpecBundle == InitBundle /\ [][NextBundle]_vars

InitBuilder == ArtInit /\ BnInit /\ RbInit /\ CpInit /\ TnInit /\ RunInit /\ OaInit /\ JcInit /\ PpInit
SpecBuilder == InitBuilder /\ [][NextBuilder]_vars

InitCompile == ArtInit /\ BnInit /\ RbInit /\ CpInit /\ TnInit /\ RunInit /\ OaInit /\ JcInit /\ PpInit
SpecCompile == InitCompile /\ [][NextCompile]_vars

InitTunables == ArtInit /\ BnInit /\ RbInit /\ CpInit /\ TnInit /\ RunInit /\ OaInit /\ JcInit /\ PpInit
SpecTunables == InitTunables /\ [][NextTunables]_vars

InitRun == ArtInit /\ BnInit /\ RbInit /\ CpInit /\ TnInit /\ RunInit /\ OaInit /\ JcInit /\ PpInit
SpecRun == InitRun /\ [][NextRun]_vars

InitOptArgs == ArtInit /\ BnInit /\ RbInit /\ CpInit /\ TnInit /\ RunInit /\ OaInit /\ JcInit /\ PpInit
SpecOptArgs == InitOptArgs /\ [][NextOptArgs]_vars

InitJailedCompile == ArtInit /\ BnInit /\ RbInit /\ CpInit /\ TnInit /\ RunInit /\ OaInit /\ JcInit /\ PpInit
SpecJailedCompile == InitJailedCompile /\ [][NextJailedCompile]_vars

\* The scheduler runs the parent and the child whenever one of them can
\* take a step.
InitPipes == ArtInit /\ BnInit /\ RbInit /\ CpInit /\ TnInit /\ RunInit /\ OaInit /\ JcInit /\ PpInit
SpecPipes == InitPipes /\ [][NextPipes]_vars /\ WF_vars(NextPipes)


(***************************************************************************)
(* Claims about the compiled artifact (SpecArtifact).                      *)
(***************************************************************************)

C2_DeletedOnceUnderMutex ==
    /\ closeCalls <= 1
    /\ Cardinality({c \in Clones : cpc[c] \in {"close", "ret"}}) <= 1
    /\ \A c \in Clones : cpc[c] \in {"close", "ret"} => lockOwner = c
    /\ (handle = "None" /\ lockOwner = 0) => closeCalls = 1
    /\ \A c \in Clones :
         (cpc[c] = "ret" /\ ~ctook[c])
            => (cret[c] = "Ok" /\ fs = fsAtTake[c] /\ closeCalls = 1)
    /\ \A c \in Clones :
         (ctook[c] /\ cpc[c] # "close" /\ cret[c] = "Ok") => fs = {}

\* C2's case: a second explicit clean_up finds the handle empty after an
\* earlier call removed the directory, while another clone waits for the
\* mutex.
C2_Witness ==
    \E c, d \in Clones :
        /\ c # d
        /\ cpc[c] = "ret" /\ ~ctook[c] /\ cmode[c] = "explicit"
        /\ explicitCalls = 2
        /\ cpc[d] = "wait"
        /\ closeCalls = 1 /\ fs = {}


(***************************************************************************)
(* Claims about the preprocessor bundle (SpecBundle).                      *)
(***************************************************************************)
Front(q) == SubSeq(q, 1, Len(q) - 1)
Last(q) == q[Len(q)]

\* pn(...p1(s)) for stages that all succeed.
RECURSIVE Composed(_, _)
Composed(ps, s) ==
    IF ps = <<>> THEN s ELSE Preprocess(Last(ps), Composed(Front(ps), s)).val

\* Every stage of ps succeeds on the output of the stages before it.
RECURSIVE AllSucceed(_, _)
AllSucceed(ps, s) ==
    \/ ps = <<>>
    \/ /\ AllSucceed(Front(ps), s)
       /\ Preprocess(Last(ps), Composed(Front(ps), s)).ok

\* C8: for a bundle built by adding p1, ..., pn in this order whose stages
\* all succeed on input s, preprocess returns pn(...p1(s)), stage k being
\* given the output of stage k-1; the empty bundle returns s unchanged.
C8_BundleIsComposition ==
    LET s == ReadToString(bn_src).val IN
    /\ (bn_pc = "loop" /\ bn_failed = NoError)
          => bn_code = Composed(SubSeq(bn_added, 1, bn_i - 1), s)
    /\ bn_pc = "done"
          => /\ bn_out.kind = "Ok"
             /\ bn_out.val = Composed(bn_added, s)
             /\ bn_added = <<>> => bn_out.val = bn_src
    /\ (bn_pc = "panicked" /\ ReadToString(bn_src).ok) => ~AllSucceed(bn_added, s)

\* C8's case: the bundle of test_preprocessor_bundle returns "c" for "a".
C8_Witness ==
    /\ bn_pc = "done"
    /\ bn_added = <<"a2b", "b2c">>
    /\ bn_src = <<"a">>
    /\ bn_out.val = <<"c">>

C10_BundleIsPreprocessor ==
    \A x \in BundleValues :
        /\ (bn_pc = "building" /\ Len(bn_stages) < MaxStages)
              => ENABLED AddPreprocessor(x)
        /\ (built = "none" /\ Len(rb.preprocessors) < MaxStages)
              => ENABLED RbPreprocessor(x)


(***************************************************************************)
(* Claims about the builder and the fused executor (SpecBuilder).          *)
(***************************************************************************)

\* C3: build returns CompilerNotSet whenever compiler() was never called
\* (also when runtime() was not called either), RuntimeNotSet when
\* compiler() was called and runtime() was not, and an executor exactly
\* when both were called, whatever calls came before.
C3_BuildValidates ==
    built # "none"
        => /\ ~rb_hist.compiler => built = "CompilerNotSet"
           /\ (rb_hist.compiler /\ ~rb_hist.runtime) => built = "RuntimeNotSet"
           /\ (rb_hist.compiler /\ rb_hist.runtime) => built = "Ok"
           /\ (exec0 # NoExec) <=> (rb_hist.compiler /\ rb_hist.runtime)

\* C3's case: build with neither a compiler nor a runtime, after
\* preprocessors were added.
C3_Witness ==
    /\ built = "CompilerNotSet"
    /\ ~rb_hist.compiler /\ ~rb_hist.runtime
    /\ rb_hist.added # <<>>

\* C4: an invocation leaves the state captured by the executor as build
\* left it; every call made by an invocation is given the stage list and
\* the configs captured at build time; two invocations on the same source
\* give the same result, whatever was invoked in between, unless the host
\* refused the removal of a scratch directory and the drop panicked.
C4_InvocationsIndependent ==
    /\ exec = exec0
    /\ \A k \in 1..Len(inv.log) :
         LET e == inv.log[k] IN
         /\ e.op = "pre" => e.arg = exec0.preprocessors[k]
         /\ e.op = "compile" => e.arg = exec0.compiler_config
         /\ e.op = "run" => (e.arg = exec0.runtime_config
                             /\ e.acfg = exec0.compiler_config)
    /\ (inv.pc = "done" /\ memo.set /\ memo.src = inv.src
           /\ memo.result.kind # "panic")
          => inv.result = memo.result
    /\ (inv.pc = "panicked" /\ inv.failedAt = "drain" /\ memo.set
           /\ memo.src = inv.src)
          => inv.result = memo.result

\* C4's case: a later invocation on a source already run, under a compiler
\* config that is not the default, has finished with a result.
C4_Witness ==
    /\ inv.pc = "done"
    /\ memo.set /\ memo.src = inv.src
    /\ inv.result.kind = "Ok"
    /\ exec0.compiler_config = "opt"
    /\ exec0.preprocessors # <<>>

\* The calls an invocation makes when no step fails, for the stages ps in
\* the order they were added.
ExpectedLog(ps, s, ccfg, rcfg) ==
    LET art == Compile(Composed(ps, s), ccfg).art IN
    [k \in 1..(Len(ps) + 2) |->
        IF k <= Len(ps)
        THEN LogEntry("pre", ps[k], Composed(SubSeq(ps, 1, k - 1), s), "none")
        ELSE IF k = Len(ps) + 1
        THEN LogEntry("compile", ccfg, Composed(ps, s), "none")
        ELSE LogEntry("run", rcfg, art.code, art.cfg)]

\* C5: an invocation drains the source before any call, then calls the
\* preprocessors one by one in the order they were added, each on the
\* output of the one before, then the compiler on pn(...p1(s)), then the
\* runtime on the artifact the compiler returned.
C5_FixedOrder ==
    LET s == ReadToString(inv.src).val
        full == ExpectedLog(rb_hist.added, s, exec0.compiler_config,
                            exec0.runtime_config)
    IN /\ (inv.pc \in {"idle", "drain"} \/ inv.failedAt = "drain") => inv.log = <<>>
       /\ inv.pc \in {"pre", "run", "drop", "done", "panicked"}
             => /\ Len(inv.log) <= Len(full)
                /\ inv.log = SubSeq(full, 1, Len(inv.log))
       /\ inv.pc = "run"
             => inv.art = Compile(Composed(rb_hist.added, s), exec0.compiler_config).art
       /\ (inv.pc \in {"drop", "done"} /\ inv.result.kind \in {"Ok", "RuntimeError"})
             => inv.log = full

\* C5's case: with a2b then b2c added, the source "a" reached the compiler
\* as "c" and the run finished.
C5_Witness ==
    /\ inv.pc = "done"
    /\ inv.result.kind = "Ok"
    /\ rb_hist.added = <<"a2b", "b2c">>
    /\ inv.src = <<"a">>
    /\ inv.log[3].op = "compile" /\ inv.log[3].code = <<"c">>

\* C6: if a preprocessor fails during an invocation, no later preprocessor
\* runs, neither the compiler nor the runtime is called, and the invocation
\* returns (it does not panic) the CompilationError variant that carries
\* the preprocessor error.  An invocation that goes on has met no failing
\* preprocessor.
C6_PreprocessorErrorLifted ==
    LET s == ReadToString(inv.src).val
        ran == [k \in 1..Len(inv.log) |-> inv.log[k].arg]
    IN /\ inv.preErr # NoError
          => /\ inv.pc = "done"
             /\ inv.result.kind = "CompilationError"
             /\ inv.result.err.pre = inv.preErr
             /\ inv.preErr.kind \in {"ParserError", "Other"}
             /\ \A k \in 1..Len(inv.log) : inv.log[k].op = "pre"
             /\ ran = SubSeq(exec0.preprocessors, 1, Len(inv.log))
             /\ inv.preErr = Preprocess(Last(ran), Composed(Front(ran), s)).err
             /\ inv.art = NoArt
       /\ inv.pc \in {"pre", "run"}
          => AllSucceed(SubSeq(exec0.preprocessors, 1, inv.i - 1), s)

\* C6's case: a preprocessor failed with a parser error while a later one
\* was still to run, and the invocation has returned.
C6_Witness ==
    /\ inv.pc = "done"
    /\ inv.preErr.kind = "ParserError"
    /\ Len(inv.log) < Len(exec0.preprocessors)

\* The step whose callee returned an error, read off the calls made.
FailedStep(log) ==
    IF log = <<>> THEN "none"
    ELSE LET e == Last(log) IN
         CASE e.op = "pre" ->
                IF Preprocess(e.arg, e.code).ok THEN "none" ELSE "pre"
           [] e.op = "compile" ->
                IF Compile(e.code, e.arg).ok THEN "none" ELSE "compile"
           [] OTHER ->
                IF Run([code |-> e.code, cfg |-> e.acfg], e.arg).ok
                THEN "none" ELSE "run"

CountOp(log, op) == Cardinality({k \in 1..Len(log) : log[k].op = op})

\* C7: an invocation that returns gives the CompilationError variant if
\* and only if a preprocessor or the compiler returned an error (and then
\* the runtime was never called), the RuntimeError variant if and only if
\* the runtime's run returned an error, and a result if and only if no
\* step failed; no step is called twice.
C7_TaggedErrors ==
    inv.pc = "done"
        => /\ inv.failedAt = FailedStep(inv.log)
           /\ (inv.result.kind = "CompilationError")
                 <=> (FailedStep(inv.log) \in {"pre", "compile"})
           /\ inv.result.kind = "CompilationError" => CountOp(inv.log, "run") = 0
           /\ (inv.result.kind = "RuntimeError") <=> (FailedStep(inv.log) = "run")
           /\ (inv.result.kind = "Ok") <=> (FailedStep(inv.log) = "none")
           /\ inv.result.kind \in {"Ok", "CompilationError", "RuntimeError"}
           /\ CountOp(inv.log, "pre") <= Len(exec0.preprocessors)
           /\ CountOp(inv.log, "compile") <= 1
           /\ CountOp(inv.log, "run") <= 1

\* C7's case: the compiler succeeded on preprocessed text and the runtime
\* returned an error.
C7_Witness ==
    /\ inv.pc = "done"
    /\ inv.result.kind = "RuntimeError"
    /\ CountOp(inv.log, "compile") = 1
    /\ exec0.preprocessors # <<>>


(***************************************************************************)
(* Claims about the compiler adapters (SpecCompile).                       *)
(***************************************************************************)

\* C11: when compile returns an error, every temporary directory the call
\* created has been deleted and no TempDir is held any more; when it
\* returns success, the scratch directory of the returned artifact exists
\* and is owned by the artifact, and no other directory of the call is left.
C11_TempDirsOnReturn ==
    cp_pc = "done" =>
        /\ cp_ret.kind = "Err" =>
              \A d \in Frames : cp_disk[d].state # "live" /\ cp_owner[d] = "none"
        /\ cp_ret.kind = "Ok" =>
              /\ cp_disk[cp_ret.dir].state = "live"
              /\ cp_owner[cp_ret.dir] = "artifact"
              /\ \A d \in Frames \ {cp_ret.dir} :
                    cp_disk[d].state # "live" /\ cp_owner[d] = "none"

\* A cython-mode call whose delegated C++ compilation failed: both frames
\* had created their directory, both are gone when the error is returned.
C11_Witness ==
    /\ cp_pc = "done"
    /\ cp_ret.kind = "Err"
    /\ cp_ret.err.kind = "CompilationFailed"
    /\ cp_disk[1].state = "deleted"
    /\ cp_disk[2].state = "deleted"

\* The toolchain binary the claim names for each adapter.
RequiredProgram(call) ==
    CASE call.lang = "rust" -> "rustc"
      [] call.lang = "cpp" -> "clang++"
      [] call.lang = "python" /\ call.cython -> "cython"
      [] call.lang = "python" -> "python3"
      [] OTHER -> "node"

\* C12: for the Rust, C++, native Python, cython-mode and native JavaScript
\* adapters, a process is spawned only after a PATH check of its program,
\* and a compile call made while the required program is missing from PATH
\* (the host refusing no file or process operation, the environment
\* variables of the adapters set) ends by returning
\* Err(ProgramNotInstalled(program)).
C12_MissingToolReported ==
    /\ \A i \in 1..Len(cp_log) :
          (cp_log[i].ev = "spawn" /\ cp_log[i].program # "javy") =>
             \E j \in 1..(i - 1) :
                cp_log[j].ev = "check" /\ cp_log[j].program = cp_log[i].program
    /\ (/\ cp_pc = "done"
        /\ ~(cp_call.lang \in {"python", "js"} /\ cp_call.rt = "wasm")
        /\ \A i \in 1..Len(cp_log) : cp_log[i].ev # "io"
        /\ cp_env = EnvVars
        /\ RequiredProgram(cp_call) \notin cp_path)
       => (/\ cp_ret.kind = "Err"
           /\ cp_ret.err = ProgramNotInstalled(RequiredProgram(cp_call)))

\* C13: a compile call that ran an external tool returns Ok only if every
\* tool it ran exited with status 0, returns Err(CompilationFailed(stderr))
\* when a tool exited non-zero, and the executable of a returned artifact
\* is a file of its scratch directory.
C13_SuccessOnlyOnZeroExit ==
    (cp_pc = "done" /\ cp_ret.kind \in {"Ok", "Err"}) =>
        /\ \A i \in 1..Len(cp_log) :
              (cp_log[i].ev = "spawn" /\ cp_log[i].ok /\ cp_log[i].status # 0) =>
                 /\ cp_ret.kind = "Err"
                 /\ cp_ret.err = CompilationFailed(FromUtf8Lossy(cp_log[i].stderr))
        /\ cp_ret.kind = "Ok" =>
              cp_ret.executable \in cp_disk[cp_ret.dir].files


(***************************************************************************)
(* Claims about the memory tunables (SpecTunables).                        *)
(***************************************************************************)

ChargeFor(op) ==
    IF wz_in.cost_function = None THEN 1
    ELSE ApplyCost(wz_in.cost_function[1], OperatorOf(op))

RECURSIVE SumCharges(_)
SumCharges(ops) ==
    IF ops = <<>> THEN 0 ELSE ChargeFor(Head(ops)) + SumCharges(Tail(ops))

\* C14: a WASI run is aborted for gas exactly when gas > 0 and the charges
\* for the operations the guest executed, cost_function(op) each or 1 each
\* without a cost function, add up to more than gas; the abort is returned
\* as the runtime's RuntimeError; with gas = 0 no metering is installed and
\* the cost function is never consulted.
C14_GasAbort ==
    /\ wz.exhausted <=> (wz_in.gas > 0 /\ SumCharges(wz.trace) > wz_in.gas)
    /\ wz.exhausted => wz.pc = "done" /\ wz.ret = WzErr("RuntimeError")
    /\ wz_in.gas = 0 => ~wz.metering /\ ~wz.consulted

\* A run with a cost function of its own, aborted at its second operation.
C14_Witness ==
    /\ wz.exhausted
    /\ wz_in.cost_function # None
    /\ Len(wz.trace) = 2
    /\ wz.ret = WzErr("RuntimeError")

(***************************************************************************)
(* Standard input of a run.                                                *)
(***************************************************************************)
\* The bytes a descriptor stands for: the string's, or the file's.
DescribedBytes(stdin, file) ==
    IF stdin.kind = "String" THEN stdin.text
    ELSE IF stdin.kind = "File" THEN file.content ELSE <<>>

\* C16: the bytes delivered to the program's stdin are none for Ignore (the
\* null device on the native and jailed runtimes, an empty pipe on WASI),
\* the bytes of s and nothing more for String(s) on the native and jailed
\* runtimes, s and one newline on WASI, and the file's contents for File on
\* every runtime.
C16_StdinBytes ==
    /\ nat.waited =>
         /\ nat.delivered = DescribedBytes(nj_in.stdin, nj_in.file)
         /\ nat.stdin_cfg = "null" <=> nj_in.stdin.kind = "Ignore"
    /\ jl.waited =>
         /\ jl.delivered = DescribedBytes(nj_in.stdin, nj_in.file)
         /\ jl.stdin_cfg = "null" <=> nj_in.stdin.kind = "Ignore"
    /\ wz.timer # "off" =>
         wz.stdin_pipe = DescribedBytes(wz_in.stdin, wz_in.file) \o
                         (IF wz_in.stdin.kind = "String" THEN <<"nl">> ELSE <<>>)

\* A WASI run given String("a") has returned, its guest having had "a" and
\* a newline on its stdin.
C16_Witness ==
    /\ wz.ret.kind = "Ok"
    /\ wz_in.stdin = StringInput(<<"a">>)
    /\ wz.stdin_pipe = <<"a", "nl">>

(***************************************************************************)
(* The WASI sandbox.                                                       *)
(***************************************************************************)
\* The guest operations that try to create a file.
CreationOps == {"create", "create_unwrap", "sandbox_create"}

\* C17 as stated: without a preopen directory, a run whose guest tried to
\* create a file returns an error.
C17_CreateFailsRun ==
    (/\ wz.pc = "done"
     /\ wz_in.preopen_dir = None
     /\ \E k \in 1..Len(wz.trace) : wz.trace[k] \in CreationOps)
    => wz.ret.kind = "Err"

\* C17: /sandbox is mounted exactly when the side-data names a preopen
\* directory and then maps that directory; every host file the guest
\* creates lies in that directory, so none is created without a preopen;
\* without a preopen a run whose guest traps on a failed creation returns
\* RuntimeError.
C17_SandboxOnly ==
    /\ wz.timer # "off" =>
         wz.mounts = IF wz_in.preopen_dir = None THEN {}
                     ELSE {[guest |-> "/sandbox", host |-> wz_in.preopen_dir[1]]}
    /\ \A f \in wz_host : wz_in.preopen_dir = Some(f.dir)
    /\ (/\ wz.pc = "done"
        /\ wz_in.preopen_dir = None
        /\ \E k \in 1..Len(wz.trace) : wz.trace[k] \in CreationOps \ {"create"})
       => wz.ret = WzErr("RuntimeError")

\* Without a preopen the guest's File::create("test.txt").unwrap() trapped
\* and the run returned RuntimeError, no host file created.
C17_Witness ==
    /\ wz.pc = "done"
    /\ wz_in.preopen_dir = None
    /\ wz.trace = <<"create_unwrap">>
    /\ wz.trapped
    /\ wz.ret = WzErr("RuntimeError")
    /\ wz_host = {}

(***************************************************************************)
(* The native and the jailed runtime.                                      *)
(***************************************************************************)
\* What a result reports for a stream the child wrote bytes to.
Reported(bytes) == IF bytes = <<>> THEN None ELSE Some(bytes)

\* C18: the result of a native run reports stdout, and likewise stderr,
\* absent exactly when the child wrote no byte to it, and otherwise with
\* the bytes the child wrote; its exit code is the child's exit status, or
\* 0 when the host reports none.
C18_NativeCapture ==
    nat.ret.kind = "Ok" =>
        /\ nat.ret.stdout = None <=> Len(nj_child.is.stdout) = 0
        /\ nat.ret.stderr = None <=> Len(nj_child.is.stderr) = 0
        /\ nat.ret.stdout = Reported(nj_child.is.stdout)
        /\ nat.ret.stderr = Reported(nj_child.is.stderr)
        /\ nat.ret.exit_code = IF nj_child.is.code = None THEN 0
                               ELSE nj_child.is.code[1]

\* A native run returned for a child that wrote nothing to stdout, wrote to
\* stderr, and was ended by a signal.
C18_Witness ==
    /\ nat.ret.kind = "Ok"
    /\ nj_child.is.stdout = <<>> /\ nat.ret.stdout = None
    /\ nj_child.is.stderr = <<"b">> /\ nat.ret.stderr = Some(<<"b">>)
    /\ nj_child.is.code = None /\ nat.ret.exit_code = 0

\* s is an initial part of t.
IsPrefix(s, t) == Len(s) <= Len(t) /\ SubSeq(t, 1, Len(s)) = s

\* C19: with the host root and a child spawned by both runs, the jailed run
\* takes the steps of the native run in the same order, wires stdin the
\* same way, and once ended has delivered the same stdin, kept the same
\* timing window and returned the same result; the arguments after the
\* jail root are the native argv, the interpreter given by its path.
C19_JailedMirrorsNative ==
    /\ (nat.spawned /\ jl.spawned) =>
         /\ IsPrefix(jl.log, nat.log)
         /\ jl.stdin_cfg = nat.stdin_cfg
         /\ jl.pc = "done" =>
              /\ jl.log = nat.log
              /\ jl.delivered = nat.delivered
              /\ jl.waited = nat.waited
              /\ jl.timer = nat.timer
              /\ jl.ret = nat.ret
    /\ (jl.argv # <<>> /\ nat.argv # <<>>) =>
         /\ SubSeq(jl.argv, 1, 3) = <<"bash", "jail.sh", "jail">>
         /\ Len(jl.argv) = 3 + Len(nat.argv)
         /\ jl.argv[Len(jl.argv)] = nat.argv[Len(nat.argv)]
         /\ Len(nat.argv) = 2 => jl.argv[4] = Which(nat.argv[1])

\* Both runs of an interpreted artifact given String("a") returned Ok with
\* captured output.
C19_Witness ==
    /\ nat.ret.kind = "Ok" /\ jl.ret.kind = "Ok"
    /\ nj_in.program = Some("python3")
    /\ nj_in.stdin = StringInput(<<"a">>)
    /\ jl.delivered = <<"a">>
    /\ jl.ret.stdout = Some(<<"a">>)
    /\ jl.argv = <<"bash", "jail.sh", "jail", "/usr/bin/python3", "executable">>

\* C20: when the host process is not root, which it never is off the unix
\* family, the jailed run returns RootRequired having written no jail
\* script into the scratch directory and spawned no process.
C20_RootRequiredFirst ==
    (/\ jl.pc \notin {"idle", "check_root"}
     /\ ~(nj_host.family = "unix" /\ nj_host.uid = 0))
    => /\ jl.pc = "done"
       /\ jl.ret = RunErr("RootRequired")
       /\ "jail.sh" \notin nj_scratch
       /\ ~jl.spawned
       /\ jl.argv = <<>>

\* On a windows host the jailed run returned RootRequired with the scratch
\* directory as the compiler left it.
C20_Witness ==
    /\ jl.pc = "done"
    /\ nj_host.family = "windows"
    /\ jl.ret = RunErr("RootRequired")
    /\ nj_scratch = {"executable"}
    /\ ~jl.spawned

(***************************************************************************)
(* The child of a native or jailed run.                                    *)
(***************************************************************************)
\* C26: a native or jailed run that spawned a child has waited for it when
\* it returns, whether it returns a result or an error.
C26_WaitsOnEveryReturn ==
    /\ (nat.pc = "done" /\ nat.spawned) => nat.waited
    /\ (jl.pc = "done" /\ jl.spawned) => jl.waited

(***************************************************************************)
(* The WASI environment.                                                   *)
(***************************************************************************)
\* C28: a WASI run that built its environment has cleaned it up when it
\* returns, whether it returns a result or an error.
C28_CleanupOnEveryReturn ==
    (/\ wz.pc = "done"
     /\ \E k \in 1..Len(wz.log) : wz.log[k] = "env")
    => wz.cleaned

(***************************************************************************)
(* The memory cap.                                                         *)
(***************************************************************************)
\* n pages are at most the memory_limit m.
WithinLimit(n, m) == m.hi > 0 \/ n <= m.lo

\* C27: with memory_limit = L > 0, a memory type is validated only after
\* adjustment, every type handed to the base tunables has a maximum and
\* has minimum and maximum at most L, a declared maximum above L is
\* rejected, and a type without a maximum whose minimum is at most L is
\* created with maximum L.
C27_HandedWithinLimit ==
    IsNonZero(tn_memory_limit) =>
        /\ tn_pc = "validate" => tn_adjusted.maximum # None
        /\ (tn_pc = "done" /\ tn_ret.kind = "Ok") =>
              /\ tn_ret.ty.maximum # None
              /\ WithinLimit(tn_ret.ty.minimum, tn_memory_limit)
              /\ WithinLimit(tn_ret.ty.maximum[1], tn_memory_limit)
        /\ (/\ tn_pc = "done"
            /\ tn_ty.maximum # None
            /\ ~WithinLimit(tn_ty.maximum[1], tn_memory_limit))
           => tn_ret.kind = "Err"
        /\ (/\ tn_pc = "done"
            /\ tn_ty.maximum = None
            /\ WithinLimit(tn_ty.minimum, tn_memory_limit))
           => /\ tn_ret.kind = "Ok"
              /\ tn_memory_limit.hi = 0
              /\ tn_ret.ty.maximum = Some(tn_memory_limit.lo)

\* C29: the cap installed for a non-zero memory_limit m is m pages.
C29_CapIsLimit ==
    IsNonZero(tn_memory_limit) =>
        /\ tn_tunables.installed
        /\ tn_memory_limit.hi = 0
        /\ tn_tunables.limit = tn_memory_limit.lo

(***************************************************************************)
(* The order of a WASI run and its result.                                 *)
(***************************************************************************)
\* The steps of a WASI run, with the memory capped or not.
WasmOrder(capped) ==
    <<"engine">> \o (IF capped THEN <<"tunables">> ELSE <<>>) \o
    <<"store", "module", "pipes", "stdin", "env", "instance", "get_start",
      "timer_start", "call", "timer_stop", "cleanup", "drain">>

\* C23: a WASI run takes its steps in the order engine, tunables (when the
\* memory is capped), store, module, pipes and stdin, environment,
\* instance, _start lookup, timer start, _start call, timer stop, cleanup,
\* drain; the guest runs only with the timer running and all of stdin in
\* the pipe, and the timer runs only from the end of construction to the
\* end of the call, stopped before cleanup.
C23_FixedOrder ==
    LET order == WasmOrder(wz_in.memory_limit # Usize(0)) IN
    /\ IsPrefix(wz.log, order)
    /\ wz.ret.kind = "Ok" => wz.log = order
    /\ wz.trace # <<>> =>
         /\ wz.timer # "off"
         /\ \E k \in 1..Len(wz.log) : wz.log[k] = "get_start"
         /\ wz.stdin_pipe = DescribedBytes(wz_in.stdin, wz_in.file) \o
                            (IF wz_in.stdin.kind = "String" THEN <<"nl">> ELSE <<>>)
    /\ wz.timer = "running" =>
         /\ wz.log[Len(wz.log)] \in {"timer_start", "call"}
         /\ ~wz.cleaned
    /\ wz.timer = "stopped" =>
         \E k \in 1..Len(wz.log) : wz.log[k] = "call"
    /\ wz.cleaned => wz.timer = "stopped"

\* A run with the memory capped and String stdin returned Ok after its
\* guest ran two operations.
C23_Witness ==
    /\ wz.ret.kind = "Ok"
    /\ wz.tunables
    /\ wz_in.stdin.kind = "String"
    /\ Len(wz.trace) = 2
    /\ wz.log = WasmOrder(TRUE)

\* C30: a WASI run that returns a result reports stdout and stderr present,
\* holding what the guest wrote, be it nothing, and exit code 0; a run
\* whose guest trapped, ran out of gas or left through proc_exit returns an
\* error.
C30_PresentStreamsExitZero ==
    /\ wz.ret.kind = "Ok" =>
         /\ wz.ret.stdout # None /\ wz.ret.stdout = Some(wz.written.stdout)
         /\ wz.ret.stderr # None /\ wz.ret.stderr = Some(wz.written.stderr)
         /\ wz.ret.exit_code = 0
         /\ ~wz.trapped /\ ~wz.exhausted
    /\ (wz.pc = "done" /\ (wz.trapped \/ wz.exhausted)) =>
         /\ wz.ret.kind = "Err"
         /\ wz.ret.exit_code = 0
    /\ (wz.pc = "done" /\ \E k \in 1..Len(wz.trace) : wz.trace[k] = "exit") =>
         wz.ret.kind = "Err"

\* A guest that wrote nothing returned from _start and the result holds
\* two empty strings.
C30_Witness ==
    /\ wz.ret.kind = "Ok"
    /\ wz.written = NoOutput
    /\ wz.ret.stdout = Some(<<>>)
    /\ wz.ret.stderr = Some(<<>>)

(***************************************************************************)
(* The optimisation flags.                                                 *)
(***************************************************************************)
\* The image of each optimisation level, as a table.
OptImage(level) ==
    IF level.kind = "Custom" THEN level.s
    ELSE [None |-> <<"0">>, Speed |-> <<"f", "a", "s", "t">>, Size |-> <<"z">>,
          O1 |-> <<"1">>, O2 |-> <<"2">>, O3 |-> <<"3">>][level.kind]

HasPrefix(s, p) == Len(s) >= Len(p) /\ SubSeq(s, 1, Len(p)) = p

\* The number a sequence of decimal digits stands for.
RECURSIVE ParseDecimal(_)
ParseDecimal(s) ==
    IF s = <<>> THEN 0
    ELSE 10 * ParseDecimal(SubSeq(s, 1, Len(s) - 1)) +
         (CHOOSE d \in 0..9 :
            <<"0", "1", "2", "3", "4", "5", "6", "7", "8", "9">>[d + 1] = s[Len(s)])

\* C22: the opt-level mapping has an image for every level, "0", "fast",
\* "z", "1", "2", "3" and s for custom(s).  The Rust adapter emits nothing
\* for the level none and otherwise the one pair -C opt-level=<image>, and
\* always ends with -C codegen-units=<n>; the C++ adapter emits nothing
\* for the level none and otherwise the one flag -O<image>, and the user's
\* extra flags follow, unchanged and in order.
C22_OptFlags ==
    /\ \A l \in OptLevels : AsStandardOptChar(l) = OptImage(l)
    /\ (oa.pc = "args" /\ oa.lang = "rust") =>
         LET a == oa.args
             n == Len(a)
             optEq == <<"o", "p", "t", "-", "l", "e", "v", "e", "l", "=">>
             cguEq == <<"c", "o", "d", "e", "g", "e", "n", "-", "u", "n", "i", "t", "s", "=">>
         IN /\ n >= 2
            /\ a[n - 1] = <<"-", "C">>
            /\ HasPrefix(a[n], cguEq)
            /\ Len(a[n]) > Len(cguEq)
            /\ ParseDecimal(SubSeq(a[n], Len(cguEq) + 1, Len(a[n]))) = oa.codegen_units
            /\ IF oa.opt_level.kind = "None"
               THEN /\ n = 2
                    /\ \A k \in 1..n : ~HasPrefix(a[k], optEq)
               ELSE /\ n = 4
                    /\ a[1] = <<"-", "C">>
                    /\ a[2] = optEq \o OptImage(oa.opt_level)
                    /\ Cardinality({k \in 1..n : HasPrefix(a[k], optEq)}) = 1
    /\ (oa.pc = "args" /\ oa.lang = "cpp") =>
         LET a == oa.args
             n == Len(a)
             m == Len(oa.additional_flags)
         IN /\ n >= m
            /\ SubSeq(a, n - m + 1, n) = oa.additional_flags
            /\ IF oa.opt_level.kind = "None"
               THEN n = m
               ELSE /\ n = m + 1
                    /\ a[1] = <<"-", "O">> \o OptImage(oa.opt_level)

\* The C++ adapter built the arguments of a config with a custom level of
\* two characters and two extra flags.
C22_Witness ==
    /\ oa.pc = "args"
    /\ oa.lang = "cpp"
    /\ oa.opt_level.kind = "Custom"
    /\ Len(oa.opt_level.s) = 2
    /\ Len(oa.additional_flags) = 2
    /\ Len(oa.args) = 3

\* The Rust adapter built the arguments of a config with the level none:
\* the two codegen-units arguments and nothing else.
C22_WitnessNone ==
    /\ oa.pc = "args"
    /\ oa.lang = "rust"
    /\ oa.opt_level.kind = "None"
    /\ oa.codegen_units = 16
    /\ Len(oa.args) = 2

(***************************************************************************)
(* The jailed artifact of a native compiler.                               *)
(***************************************************************************)
\* C21: when compile for the jailed runtime returns an artifact, the native
\* compiler was given the caller's config, the artifact has the native
\* artifact's executable and side-data, and the scratch directory exists:
\* the drop of the intermediate native artifact never removes it.  The
\* directory is removed only by a drop or a clean_up of the jailed artifact
\* (or of a clone of it, which shares the handle).
C21_JailedIsNative ==
    /\ jc.got_config = jc.config
    /\ jc.ret.kind = "Ok" =>
         /\ jc.jailed.executable = jc.native.executable
         /\ jc.jailed.program = jc.native.program
         /\ jc.jailed.executable \in {ExecutableName(l, "native") : l \in NativeLangs}
         /\ jc.dir_at_return = "exists"
         /\ "native" \notin jc.live
    /\ \A k \in 1..Len(jc.removed_by) : jc.removed_by[k] \in {"jailed", "clone"}
    /\ (jc.ret.kind = "Ok" /\ jc.removed_by = <<>>) => jc.dir = "exists"
    /\ (jc.ret.kind = "Ok" /\ jc.dir = "deleted") => Len(jc.removed_by) = 1

\* compile returned the artifact of the Python adapter, the native artifact
\* is gone and the directory was still there; the caller then dropped the
\* jailed artifact, which removed it.
C21_Witness ==
    /\ jc.ret.kind = "Ok"
    /\ jc.jailed.executable = "code.py"
    /\ jc.jailed.program = "python3"
    /\ jc.dir_at_return = "exists"
    /\ jc.dir = "deleted"
    /\ jc.removed_by = <<"jailed">>
    /\ jc.live = {}

(***************************************************************************)
(* The scratch directory of an executor invocation.                        *)
(***************************************************************************)
\* C24: when an invocation of the fused executor whose compilation
\* succeeded returns, with the runtime's result or with the runtime's
\* error, its scratch directory has been deleted; no invocation that
\* returned has left a directory on disk.
C24_ScratchDeletedAtReturn ==
    /\ (inv.pc = "done" /\ \E k \in 1..Len(inv.log) : inv.log[k].op = "run") =>
         /\ inv.result.kind \in {"Ok", "RuntimeError"}
         /\ inv.dir = "deleted"
    /\ inv.pc = "done" => inv.dir # "exists"
    /\ ~rb_left.returned

\* An invocation whose compilation succeeded and whose runtime failed is
\* about to return, after an earlier invocation was finished.
C24_Witness ==
    /\ inv.pc = "done"
    /\ inv.result.kind = "RuntimeError"
    /\ inv.dir = "deleted"
    /\ memo.set

(***************************************************************************)
(* Termination of a native run with piped stdin.                           *)
(***************************************************************************)
\* C25: a native or jailed run with a string or file stdin eventually
\* returns, whatever the size of the input and of the child's output.
C25_EventuallyReturns == <>(pp.pc = "done")

\* The parent is blocked writing stdin to a full pipe, and the child is
\* blocked writing stdout to a full pipe that the parent does not read yet.
C25_BothBlocked ==
    /\ pp.pc = "write"
    /\ pp.remaining > 0
    /\ pp.stdin_fill = PipeCap
    /\ ~pp.exited
    /\ pp.at <= Len(pp.program)
    /\ pp.program[pp.at] = "write"
    /\ pp.stdout_fill = PipeCap

====
